---- MODULE Spec2Model ----
(***************************************************************************)
(* Model of the layered image builder: cli.cmd_build, BuildOrchestrator    *)
(* (build_image / _build_layered), LayerReuseManager.find_optimal_base and *)
(* the effect of ContainerLayerBuilder.build_layer on the image store.     *)
(*                                                                         *)
(* Strings built with f-strings in the source are modelled as tuples of    *)
(* their parts: "apt:curl" is <<"apt", "curl">>, an image reference        *)
(* "repo:tag" is a record of the parts of its repository and of its tag.   *)
(***************************************************************************)
EXTENDS Integers, Sequences, FiniteSets, TLC

(***************************************************************************)
(* Bounds of the model.                                                    *)
(***************************************************************************)
\* longest apt_packages list of a declaration
MaxAptPkgs == 2
\* number of candidate entries in the planner's image_sets cache
MaxCandidates == 2

\* package / script / config names the declarations are drawn from
AptPkgs == {"curl", "git"}
PipPkgs == {"requests"}
ScriptNames == {"bootstrap"}
\* the commands of a script install
ScriptBodies == {"echo a", "echo b"}
ConfigNames == {"motd"}

NoValue == "none"

(***************************************************************************)
(* Sequence helpers.                                                       *)
(***************************************************************************)
Range(s) == {s[i] : i \in 1..Len(s)}

SeqsNoDup(S, n) ==
  {s \in UNION {[1..k -> S] : k \in 0..n} : \A i, j \in 1..Len(s) : i # j => s[i] # s[j]}

RECURSIVE MapSeq(_, _)
MapSeq(F(_), s) == IF s = <<>> THEN <<>> ELSE <<F(Head(s))>> \o MapSeq(F, Tail(s))

RECURSIVE FilterSeq(_, _)
FilterSeq(P(_), s) ==
  IF s = <<>> THEN <<>>
  ELSE (IF P(Head(s)) THEN <<Head(s)>> ELSE <<>>) \o FilterSeq(P, Tail(s))

(***************************************************************************)
(* config.py: LayerType and Layer.                                         *)
(***************************************************************************)
LayerType == {"base", "apt", "yum", "pip", "script", "config"}

Layer(name, type, content) == [name |-> name, type |-> type, content |-> content]

\* package.replace('-', '_').replace('+', 'plus').replace('.', '_') on the
\* package names of the model (none of them holds '-', '+' or '.')
SafeName(pkg) == pkg

(***************************************************************************)
(* Image references "repo:tag".  The tag of an image this system names is  *)
(* "<prefix>__<kind>-<key>"; the tag of a foreign image is its prefix.     *)
(***************************************************************************)
Ref(repo, prefix, kind, key) == [repo |-> repo, prefix |-> prefix, kind |-> kind, key |-> key]

\* "ubuntu:22.04"
BaseImage == Ref(<<"ubuntu">>, <<"22.04">>, "base", {})
BaseImages == {BaseImage}
\* the reference as the string the declaration holds, and back
RefName(b) == IF b = BaseImage THEN "ubuntu:22.04" ELSE "other"
ImageByName(n) == CHOOSE b \in BaseImages : RefName(b) = n

ImageName == "app"
ImageTag == "latest"

(***************************************************************************)
(* Declarations (UserDeclaration as parsed from the config file).          *)
(***************************************************************************)
Declarations ==
  {d \in [base_image : BaseImages,
          apt : SeqsNoDup(AptPkgs, MaxAptPkgs),
          pip : SeqsNoDup(PipPkgs, 1),
          scripts : SeqsNoDup(ScriptNames, 1),
          script_commands : ScriptBodies,
          configs : SeqsNoDup(ConfigNames, 1),
          apt_sources : BOOLEAN,
          valid : BOOLEAN] :
     /\ (d.apt_sources => d.apt # <<>>)
     /\ (d.scripts = <<>> => d.script_commands = "echo a")
     /\ Len(d.pip) + Len(d.scripts) + Len(d.configs) <= 1
     /\ (~d.valid => (d.apt = <<"curl">> /\ ~d.apt_sources
                      /\ Len(d.pip) + Len(d.scripts) + Len(d.configs) = 0))}

(***************************************************************************)
(* build_orchestrator.py: package managers and layer decomposition.        *)
(***************************************************************************)
\* pm_for_layer_type(layer.type).name, NoValue for a type without manager
pm_for_layer_type(type) == IF type \in {"apt", "yum", "pip"} THEN type ELSE NoValue

\* PackageManager.needs_refresh and refresh_cmd(): apt and yum refresh, pip does not
needs_refresh(pm) == pm \in {"apt", "yum"}

AptLayer(pkg) == Layer(SafeName(pkg), "apt", pkg)
PipLayer(pkg) == Layer(SafeName(pkg), "pip", pkg)
ScriptLayer(name, commands) == Layer(name, "script", commands)
ConfigLayer(name) == Layer(name, "config", "commands")

\* BuildOrchestrator._parse_layers for a declaration given through heavy_setup
\* and light_setup (the order of emission is the order of the code)
_parse_layers(d) ==
  <<Layer("base", "base", RefName(d.base_image))>>
  \o (IF d.apt # <<>>
      THEN (IF d.apt_sources THEN <<Layer("apt_sources", "script", "sources_cmd")>> ELSE <<>>)
           \o <<Layer("apt_update", "script", "apt-get update")>>
      ELSE <<>>)
  \o MapSeq(AptLayer, d.apt)
  \o MapSeq(LAMBDA n : ScriptLayer(n, d.script_commands), d.scripts)
  \o MapSeq(PipLayer, d.pip)
  \o MapSeq(ConfigLayer, d.configs)

(***************************************************************************)
(* cli.py: the dependency checksum.                                        *)
(***************************************************************************)
\* f"base:{base_image}"
base_item(b) == <<"base", b.repo[Len(b.repo)], b.prefix[1]>>

\* cmd_build._collect_dep_items: sorted(set(items)); the sorted list of a set
\* is determined by the set, which stands for it
\* an item list that is neither deduplicated nor sorted
_collect_dep_items_as_listed(d) ==
  <<base_item(d.base_image)>>
    \o MapSeq(LAMBDA p : <<"apt", p>>, d.apt)
    \o MapSeq(LAMBDA p : <<"pip", p>>, d.pip)
    \o MapSeq(LAMBDA n : <<"script", n>>, d.scripts)

_collect_dep_items(d) ==
  {base_item(d.base_image)}
    \cup {<<"apt", p>> : p \in Range(d.apt)}
    \cup {<<"pip", p>> : p \in Range(d.pip)}
    \cup {<<"script", n>> : n \in Range(d.scripts)}

\* hashlib.sha256("\n".join(dep_items)).hexdigest(): a digest of the item list
dep_checksum(d) == [sha256 |-> _collect_dep_items(d)]

(***************************************************************************)
(* Names of the images a build writes.                                     *)
(***************************************************************************)
\* the characters str.isalnum() holds for, among those of the model
Alnum == {"a", "Z", "7", "u", "b", "n", "t", "2", "0", "4", "l", "e", "s"}

\* a foreign image whose reference is the string s, and the string of a
\* reference a declaration names as its base image
NamedImage(s) == Ref(s, <<>>, "name", {})
ImageChars(b) ==
  IF b = BaseImage THEN <<"u", "b", "u", "n", "t", "u", ":", "2", "2", ".", "0", "4">>
  ELSE b.repo

\* mutant of _slugify: the dot is kept
_slugify_keeps_dot(s) ==
  [i \in 1..Len(s) |-> IF s[i] \in Alnum \cup {"-", "_", "."} THEN s[i] ELSE "_"]

\* ''.join(c if c.isalnum() or c in ('-', '_') else '_' for c in s)
_slugify(s) ==
  [i \in 1..Len(s) |-> IF s[i] \in Alnum \cup {"-", "_"} THEN s[i] ELSE "_"]

\* str.rfind, counted from 1 (0 when c does not occur)
rfind(s, c) ==
  LET I == {i \in 1..Len(s) : s[i] = c}
  IN IF I = {} THEN 0 ELSE CHOOSE i \in I : \A j \in I : j <= i

\* _parse_base_image: <<base_repo, tag>>; the last ':' after the last '/'
\* separates the tag, and the repo is what follows the last '/' of the name
_parse_base_image(s) ==
  LET last_slash == rfind(s, "/")
      last_colon == rfind(s, ":")
      name == IF last_colon > last_slash THEN SubSeq(s, 1, last_colon - 1) ELSE s
      tag == IF last_colon > last_slash THEN SubSeq(s, last_colon + 1, Len(s))
             ELSE <<"l", "a", "t", "e", "s", "t">>
  IN <<SubSeq(name, rfind(name, "/") + 1, Len(name)), tag>>

\* self.base_repo_slug = self._slugify(base_repo)
base_repo_slug(d) == _slugify(_parse_base_image(ImageChars(d.base_image))[1])
\* self.base_tag_slug = self._slugify(base_tag or 'latest')
base_tag_slug(d) ==
  LET base_tag == _parse_base_image(ImageChars(d.base_image))[2]
  IN _slugify(IF base_tag = <<>> THEN <<"l", "a", "t", "e", "s", "t">> ELSE base_tag)

\* self.repo_name = f"{self.base_repo_slug}__{declaration.image_name}"
repo_name(d) == base_repo_slug(d) \o <<"__", ImageName>>

\* target_ref = f"{target_repo}:{self.base_tag_slug}__{declaration.image_tag}"
target_ref(d) == Ref(repo_name(d), base_tag_slug(d), "final", {<<ImageTag>>})

\* classic_ref = f"{declaration.image_name}:{declaration.image_tag}"
classic_ref(d) == Ref(<<ImageName>>, <<ImageTag>>, "classic", {})

\* _format_layer_image_tag: repo:base_tag_slug__layer-<type>-<name>-<hash>,
\* the hash being a digest of (type, name, content)
_format_layer_image_tag(d, layer) ==
  Ref(repo_name(d), base_tag_slug(d), "layer", {<<layer.type, layer.name, layer.content>>})

\* _embed_dependency_metadata: meta_tag = repo:base_tag_slug__meta-<hash of items>
meta_tag(d, items) == Ref(repo_name(d), base_tag_slug(d), "meta", items)

(***************************************************************************)
(* reuse.py: LayerReuseManager.find_optimal_base.                          *)
(*                                                                         *)
(* image_sets is the ordered dict of the cache, a sequence of entries      *)
(* [tag |-> reference, packages |-> items]; exists is the set of image     *)
(* references `docker images -q` answers for (_image_exists).              *)
(***************************************************************************)
\* the identifier of a layer in the target set (lines 102-110): packages of
\* APT and YUM layers by content, SCRIPT layers by name, nothing else
\* an identifier that tells SCRIPT layers apart by their commands
layer_id_script_by_content(layer) ==
  IF layer.type \in {"apt", "yum"} THEN {<<layer.type, layer.content>>}
  ELSE IF layer.type = "script" THEN {<<"script", layer.content>>}
  ELSE {}

layer_id(layer) ==
  IF layer.type \in {"apt", "yum"} THEN {<<layer.type, layer.content>>}
  ELSE IF layer.type = "script" THEN {<<"script", layer.name>>}
  ELSE {}

non_base(target_layers) == FilterSeq(LAMBDA l : l.type # "base", target_layers)

target_set(target_layers) == UNION {layer_id(l) : l \in Range(non_base(target_layers))}

\* the score of lines 211-215, in hundredths (so that 0.01 is the integer 1)
CompleteBonus == 1000000

\* a score that gives the bonus to the candidates with missing items
score_bonus_for_incomplete(intersection, missing, extra) ==
  Cardinality(intersection) * 10000 - Cardinality(missing) * 5000 - Cardinality(extra)
    + (IF Cardinality(missing) # 0 THEN CompleteBonus ELSE 0)

score(intersection, missing, extra) ==
  Cardinality(intersection) * 10000 - Cardinality(missing) * 5000 - Cardinality(extra)
    + (IF Cardinality(missing) = 0 THEN CompleteBonus ELSE 0)

\* best_score = -10000, in hundredths
InitialBestScore == -1000000

\* a loop that does not ask _image_exists before it evaluates an entry
evaluated_without_existence(entry, preferred_repo, exists) ==
  /\ (preferred_repo # NoValue => entry.tag.repo = preferred_repo)
  /\ entry.packages # {}

\* lines 152-166: the candidates the loop evaluates
evaluated(entry, preferred_repo, exists) ==
  /\ (preferred_repo # NoValue => entry.tag.repo = preferred_repo)
  /\ entry.tag \in exists
  /\ entry.packages # {}

\* a loop that replaces the best candidate on an equal score (>= for >)
RECURSIVE best_of_last_wins(_, _, _, _, _)
best_of_last_wins(image_sets, T, preferred_repo, exists, best) ==
  IF image_sets = <<>> THEN best
  ELSE LET entry == Head(image_sets)
           sc == score(T \cap entry.packages, T \ entry.packages, entry.packages \ T)
           next == IF evaluated(entry, preferred_repo, exists) /\ sc >= best.score
                   THEN [image |-> {entry.tag}, intersection |-> T \cap entry.packages,
                         score |-> sc, missing |-> T \ entry.packages,
                         packages |-> entry.packages]
                   ELSE best
       IN best_of_last_wins(Tail(image_sets), T, preferred_repo, exists, next)

\* a loop that keeps the first candidate it evaluates
RECURSIVE best_of_first_evaluated(_, _, _, _, _)
best_of_first_evaluated(image_sets, T, preferred_repo, exists, best) ==
  IF image_sets = <<>> THEN best
  ELSE LET entry == Head(image_sets)
           sc == score(T \cap entry.packages, T \ entry.packages, entry.packages \ T)
           next == IF evaluated(entry, preferred_repo, exists) /\ best.image = {}
                   THEN [image |-> {entry.tag}, intersection |-> T \cap entry.packages,
                         score |-> sc, missing |-> T \ entry.packages,
                         packages |-> entry.packages]
                   ELSE best
       IN best_of_first_evaluated(Tail(image_sets), T, preferred_repo, exists, next)

\* lines 124-127 and 150-227: the loop over image_sets.items(), keeping the
\* first candidate of the highest score
RECURSIVE best_of(_, _, _, _, _)
best_of(image_sets, T, preferred_repo, exists, best) ==
  IF image_sets = <<>> THEN best
  ELSE LET entry == Head(image_sets)
           sc == score(T \cap entry.packages, T \ entry.packages, entry.packages \ T)
           next == IF evaluated(entry, preferred_repo, exists) /\ sc > best.score
                   THEN [image |-> {entry.tag}, intersection |-> T \cap entry.packages,
                         score |-> sc, missing |-> T \ entry.packages,
                         packages |-> entry.packages]
                   ELSE best
       IN best_of(Tail(image_sets), T, preferred_repo, exists, next)

NoBest == [image |-> {}, intersection |-> {}, score |-> InitialBestScore,
           missing |-> {}, packages |-> {}]

\* generate_cleanup_commands (lines 298-330): one apt_remove descriptor for
\* the extra apt items, one script_remove descriptor for the extra scripts
generate_cleanup_commands(extra) ==
  (IF {i \in extra : i[1] = "apt"} # {}
   THEN <<[type |-> "apt_remove", names |-> {i[2] : i \in {x \in extra : x[1] = "apt"}}]>>
   ELSE <<>>)
  \o (IF {i \in extra : i[1] = "script"} # {}
      THEN <<[type |-> "script_remove", names |-> {i[2] : i \in {x \in extra : x[1] = "script"}}]>>
      ELSE <<>>)

\* lines 258-287: what is rebuilt when the best image is used
\* a planner that rebuilds a CONFIG layer only when the match is partial
must_build_config_only_on_partial(layer, best) ==
  IF best.missing = {}
  THEN FALSE
  ELSE \/ layer.type = "config"
       \/ (layer.type \in {"apt", "yum", "script"} /\ layer_id(layer) \cap best.intersection = {})

must_build(layer, best) ==
  IF best.missing = {}
  THEN layer.type = "config"
  ELSE \/ layer.type = "config"
       \/ (layer.type \in {"apt", "yum", "script"} /\ layer_id(layer) \cap best.intersection = {})

\* lines 259-271: the names marked as reused
reused_names(target_layers, best) ==
  IF best.missing = {}
  THEN {l.name : l \in {x \in Range(non_base(target_layers)) : x.type \in {"apt", "yum", "script"}}}
  ELSE {l.name : l \in {x \in Range(non_base(target_layers)) : layer_id(x) \cap best.intersection # {}}}

\* a planner that takes the best image whatever its intersection
find_optimal_base_any_best(target_layers, preferred_repo, image_sets, exists) ==
  LET T == target_set(target_layers)
      best == best_of(image_sets, T, preferred_repo, exists, NoBest)
  IN IF best.image # {}
     THEN [base_image |-> CHOOSE t \in best.image : TRUE,
           reused |-> reused_names(target_layers, best),
           layers_to_build |-> FilterSeq(LAMBDA l : must_build(l, best), non_base(target_layers)),
           cleanup_commands |-> IF best.packages \ T # {}
                                THEN generate_cleanup_commands(best.packages \ T) ELSE <<>>]
     ELSE [base_image |-> ImageByName(target_layers[1].content),
           reused |-> {},
           layers_to_build |-> non_base(target_layers),
           cleanup_commands |-> <<>>]

\* lines 233-296: the plan made of the best image, or the fallback
find_optimal_base(target_layers, preferred_repo, image_sets, exists) ==
  LET T == target_set(target_layers)
      best == best_of(image_sets, T, preferred_repo, exists, NoBest)
  IN IF best.image # {} /\ best.intersection # {}
     THEN [base_image |-> CHOOSE t \in best.image : TRUE,
           reused |-> reused_names(target_layers, best),
           layers_to_build |-> FilterSeq(LAMBDA l : must_build(l, best), non_base(target_layers)),
           cleanup_commands |-> IF best.packages \ T # {}
                                THEN generate_cleanup_commands(best.packages \ T) ELSE <<>>]
     ELSE [base_image |-> ImageByName(target_layers[1].content),
           reused |-> {},
           layers_to_build |-> non_base(target_layers),
           cleanup_commands |-> <<>>]

(***************************************************************************)
(* The image store and the effect of building a layer.                     *)
(*                                                                         *)
(* An image is [installed, history, labels]: the dependency items present  *)
(* in its filesystem, the names of the layers this system applied, and the *)
(* item list of its io.teleinfra.imgdeps labels (<<>>: no labels).         *)
(***************************************************************************)
Image(installed, history, labels) ==
  [installed |-> installed, history |-> history, labels |-> labels]

PristineBase == Image({}, <<>>, <<>>)

\* what running the commands of a layer does to the filesystem: a package
\* or script layer adds its item, a *_cleanup_remove layer removes packages
apply_layer(installed, layer, removed) ==
  (installed \ removed) \cup (IF layer.type \in {"apt", "yum", "pip"}
                              THEN {<<layer.type, layer.content>>}
                              ELSE IF layer.type = "script" THEN {<<"script", layer.name>>}
                              ELSE {})

\* a build_layer that commits without the label changes
built_image_without_labels(parent, layer, removed, metadata_items, how) ==
  Image(apply_layer(parent.installed, layer, removed),
        Append(parent.history, layer.name),
        IF how = "commit" THEN parent.labels ELSE <<>>)

\* container_layer_builder.py, build_layer lines 195-259: the image written
\* at image_tag; `docker commit` keeps the labels of the parent unless new
\* ones are given, `docker import` starts from none
built_image(parent, layer, removed, metadata_items, how) ==
  Image(apply_layer(parent.installed, layer, removed),
        Append(parent.history, layer.name),
        IF metadata_items # <<>> THEN metadata_items
        ELSE IF how = "commit" THEN parent.labels ELSE <<>>)

\* _build_layer (lines 763-814): `docker build` of a generated Dockerfile
\* FROM the parent, which keeps the labels of the parent
docker_built_image(parent, layer) ==
  Image(apply_layer(parent.installed, layer, {}), Append(parent.history, layer.name), parent.labels)

Put(st, ref, img) == [r \in DOMAIN st \cup {ref} |-> IF r = ref THEN img ELSE st[r]]
Drop(st, ref) == [r \in DOMAIN st \ {ref} |-> st[r]]

(***************************************************************************)
(* One invocation of `cli.py build`.                                       *)
(*                                                                         *)
(* decl, force_rebuild : the declaration of the config file, --force       *)
(* sidecar             : the checksum file, {} when absent, else {content} *)
(* store               : the local image store, reference -> image         *)
(* image_sets          : cache["image_sets"] of the LayerReuseManager      *)
(* pc, exit_code       : position in cmd_build, and its return value       *)
(* frame               : the locals of _build_layered                      *)
(* phases, ops, failures, written, deleted, sidecar0 : history of the run  *)
(* builder_call        : the last call of ContainerLayerBuilder.build_layer*)
(***************************************************************************)
VARIABLES decl, force_rebuild, sidecar, store, image_sets, pc, exit_code, frame,
          phases, ops, failures, written, deleted, sidecar0, builder_call

vars == <<decl, force_rebuild, sidecar, store, image_sets, pc, exit_code, frame,
          phases, ops, failures, written, deleted, sidecar0, builder_call>>

\* a checksum file left by a build of another dependency list
StaleChecksum == [sha256 |-> {<<"base", "ubuntu", "20.04">>}]

\* a checksum file that exists and cannot be read
UnreadableFile == [sha256 |-> {<<"unreadable", "file", "content">>}]

\* images an earlier build left under the repository of this project, as
\* the cache records them; "htop" is a package no declaration asks for
CandidateRef(d, k) == Ref(repo_name(d), base_tag_slug(d), "candidate", {<<ToString(k)>>})
CandidatePackages ==
  {{<<"apt", "curl">>},
   {<<"script", "apt_update">>, <<"apt", "curl">>},
   {<<"script", "apt_update">>, <<"apt", "curl">>, <<"apt", "htop">>},
   {<<"script", "apt_update">>, <<"apt", "curl">>, <<"pip", "requests">>, <<"script", "legacy">>}}

\* the image an earlier build of apt_packages [curl, htop] left for its layer
\* htop: build_layer got the items of the layers built before that layer
\* (build_orchestrator.py lines 364-390), so its labels list apt:curl only
LayerImageRef(d) == _format_layer_image_tag(d, AptLayer("htop"))
LayerImageLabels == <<<<"apt", "curl">>>>
LayerImage ==
  Image({<<"script", "apt_update">>, <<"apt", "curl">>, <<"apt", "htop">>}, <<>>, LayerImageLabels)

\* the caches of a build: no entry, or one entry whose image exists; the
\* entry of a layer image holds the items of its labels
BuildCaches(d) ==
  {<<>>} \cup {<<[tag |-> CandidateRef(d, 1), packages |-> P]>> : P \in CandidatePackages}
        \cup {<<[tag |-> LayerImageRef(d), packages |-> Range(LayerImageLabels)]>>}

\* the final image of the earlier build that left a checksum file
OldFinal == Image({<<"apt", "old">>}, <<"old">>, <<>>)

\* the store before the build: the declared base, the images of the cache,
\* and under both final tags the image of the earlier build, if there was one
StoreOf(d, cache, prior) ==
  LET cached == {cache[i].tag : i \in 1..Len(cache)}
      finals == IF prior THEN {target_ref(d), classic_ref(d)} ELSE {}
  IN [r \in {d.base_image} \cup cached \cup finals |->
        IF r = d.base_image THEN PristineBase
        ELSE IF r \in finals THEN OldFinal
        ELSE IF r = LayerImageRef(d) THEN LayerImage
        ELSE Image((CHOOSE e \in Range(cache) : e.tag = r).packages, <<>>, <<>>)]

\* no call of build_layer yet
NoCall == [commands |-> <<>>, image |-> {}, metadata_items |-> <<>>, labels |-> {}]

NoFrame ==
  [all_layers |-> <<>>, parent_image |-> BaseImage, layers_to_build |-> <<>>,
   reused_layer_names |-> {}, reused_base_tag |-> {}, cleanup_pkgs |-> {},
   refresh_steps |-> <<>>, built_layers |-> <<>>, final_image |-> BaseImage,
   planner_binding |-> NoValue]

Init ==
  /\ decl \in Declarations
  /\ force_rebuild \in BOOLEAN
  /\ sidecar \in {{}, {dep_checksum(decl)}, {StaleChecksum}, {UnreadableFile}}
  /\ sidecar0 = sidecar
  /\ image_sets \in BuildCaches(decl)
  /\ store = StoreOf(decl, image_sets, sidecar # {})
  /\ pc = "preflight"
  /\ exit_code = {}
  /\ frame = NoFrame
  /\ phases = <<>>
  /\ ops = {}
  /\ failures = {}
  /\ written = {}
  /\ deleted = {}
  /\ builder_call = NoCall

\* the process returns `code`; a failure is recorded with its cause
Return(code, phase, cause) ==
  /\ pc' = "done"
  /\ exit_code' = {code}
  /\ phases' = Append(phases, phase)
  /\ failures' = failures \cup cause

\* cmd_build lines 59-84: `docker info`, directly or through sudo
Preflight ==
  /\ pc = "preflight"
  /\ ops' = ops \cup {"info"}
  /\ \E accessible \in BOOLEAN :
       IF accessible
       THEN pc' = "construct" /\ UNCHANGED <<exit_code, phases, failures>>
       ELSE Return(1, "ABORTED", {"preflight"})
  /\ UNCHANGED <<decl, builder_call, force_rebuild, sidecar, store, image_sets, frame, written, deleted, sidecar0>>

\* cmd_build lines 86-93: BuildOrchestrator(cache_config), whose
\* LayerReuseManager loads the cache and lists the images of the store
\* (_discover_existing_images runs `docker images`)
Construct ==
  /\ pc = "construct"
  /\ ops' = ops \cup {"images"}
  /\ pc' = "checksum"
  /\ UNCHANGED <<decl, builder_call, force_rebuild, sidecar, store, image_sets, exit_code, frame,
                 phases, failures, written, deleted, sidecar0>>

\* a cmd_build that takes a checksum file it cannot read for a match
read_previous_unreadable_matches(file) ==
  IF file = {UnreadableFile} THEN {dep_checksum(decl)} ELSE file

\* cmd_build lines 168-180: the content of the checksum file; nothing when
\* the file does not exist or reading it raises (the except of line 179)
read_previous(file) ==
  IF file = {UnreadableFile} THEN {} ELSE file

\* a cmd_build that never compares the checksum file: it always builds
CheckChecksum_no_shortcut ==
  /\ pc = "checksum"
  /\ pc' = "decompose"
  /\ UNCHANGED <<decl, builder_call, force_rebuild, sidecar, store, image_sets, frame, ops, written,
                 deleted, sidecar0, exit_code, phases, failures>>

\* a cmd_build that writes the checksum file before it calls build_image
CheckChecksum_writes_early ==
  /\ pc = "checksum"
  /\ IF ~force_rebuild /\ sidecar = {dep_checksum(decl)}
     THEN Return(0, "CHECKSUM_MATCH", {}) /\ UNCHANGED <<sidecar, written>>
     ELSE /\ pc' = "decompose"
          /\ sidecar' = {dep_checksum(decl)}
          /\ written' = written \cup {"sidecar"}
          /\ UNCHANGED <<exit_code, phases, failures>>
  /\ UNCHANGED <<decl, builder_call, force_rebuild, store, image_sets, frame, ops, deleted, sidecar0>>

\* cmd_build lines 155-180: the checksum of the declaration against the file
CheckChecksum ==
  /\ pc = "checksum"
  /\ IF ~force_rebuild /\ read_previous(sidecar) = {dep_checksum(decl)}
     THEN Return(0, "CHECKSUM_MATCH", {})
     ELSE pc' = "decompose" /\ UNCHANGED <<exit_code, phases, failures>>
  /\ UNCHANGED <<decl, builder_call, force_rebuild, sidecar, store, image_sets, frame, ops, written,
                 deleted, sidecar0>>

\* build_image lines 146-153 and _build_layered lines 168-183
Decompose ==
  /\ pc = "decompose"
  /\ IF decl.valid
     THEN /\ frame' = [frame EXCEPT !.all_layers = _parse_layers(decl)]
          /\ pc' = "plan"
          /\ phases' = Append(phases, "DECOMPOSED")
          /\ UNCHANGED <<exit_code, failures>>
     ELSE Return(1, "ABORTED", {"config"}) /\ UNCHANGED frame
  /\ UNCHANGED <<decl, builder_call, force_rebuild, sidecar, store, image_sets, ops, written, deleted, sidecar0>>

(***************************************************************************)
(* _build_layered: planning (lines 185-278).                               *)
(*                                                                         *)
(* The call of line 197 passes required_tag_prefix, a keyword the          *)
(* find_optimal_base of reuse.py (line 78) does not declare: bound to that *)
(* definition the call raises TypeError, which build_image turns into a    *)
(* failed build.  The planner the call is written for takes the keyword    *)
(* and evaluates only tags that start with it; that planner is             *)
(* find_optimal_base_prefixed.  Plan covers both bindings.                 *)
(***************************************************************************)
PlannerBindings == {"reuse.py", "prefixed"}

find_optimal_base_prefixed(target_layers, preferred_repo, required_tag_prefix, cache, exists) ==
  find_optimal_base(target_layers, preferred_repo,
                    FilterSeq(LAMBDA e : e.tag.prefix = required_tag_prefix, cache), exists)

\* lines 213-240: one <pm>_cleanup_remove layer per manager with removals
cleanup_items(cleanup_commands) ==
  UNION {{<<"apt", n>> : n \in cleanup_commands[i].names} :
           i \in {j \in 1..Len(cleanup_commands) : cleanup_commands[j].type = "apt_remove"}}

cleanup_layers(cleanup_commands) ==
  IF cleanup_items(cleanup_commands) # {}
  THEN <<Layer("apt_cleanup_remove", "script", "apt-get remove")>> ELSE <<>>

\* lines 281-327: the refresh layers built on a reused base, managers in
\* sorted order, apt_sources before the apt refresh
managers_needed(layers) ==
  {pm_for_layer_type(l.type) : l \in Range(layers)} \ {NoValue}

\* a refresh phase that does not look at the base the build starts from
refresh_layers_on_any_base(d, parent, layers) ==
  (IF "apt" \in managers_needed(layers)
   THEN (IF d.apt_sources THEN <<Layer("apt_sources", "script", "sources_cmd")>> ELSE <<>>)
        \o <<Layer("apt_refresh", "script", "apt-get update")>>
   ELSE <<>>)
  \o (IF "yum" \in managers_needed(layers)
      THEN <<Layer("yum_refresh", "script", "yum makecache")>> ELSE <<>>)

refresh_layers(d, parent, layers) ==
  IF parent = d.base_image THEN <<>>
  ELSE (IF "apt" \in managers_needed(layers)
        THEN (IF d.apt_sources THEN <<Layer("apt_sources", "script", "sources_cmd")>> ELSE <<>>)
             \o <<Layer("apt_refresh", "script", "apt-get update")>>
        ELSE <<>>)
       \o (IF "yum" \in managers_needed(layers)
           THEN <<Layer("yum_refresh", "script", "yum makecache")>> ELSE <<>>)

AfterPlan(f) ==
  IF f.refresh_steps # <<>> THEN "refresh"
  ELSE IF f.layers_to_build # <<>> THEN "build" ELSE "finalize"

\* the frame after lines 185-193 (force) or 197-240 (plan `r` of the planner)
\* a forced build that starts from the first image of the cache, if any
ForcedFrame_on_cached_image ==
  [frame EXCEPT !.parent_image = IF image_sets # <<>> THEN image_sets[1].tag ELSE decl.base_image,
                !.reused_base_tag = IF image_sets # <<>> THEN {image_sets[1].tag} ELSE {},
                !.layers_to_build = non_base(frame.all_layers),
                !.reused_layer_names = {},
                !.planner_binding = NoValue]

ForcedFrame ==
  [frame EXCEPT !.parent_image = decl.base_image,
                !.layers_to_build = non_base(frame.all_layers),
                !.reused_layer_names = {},
                !.planner_binding = NoValue]

\* a _build_layered that puts the cleanup layers after the layers of the plan
PlannedFrame_cleanup_last(r, binding) ==
  LET ltb == r.layers_to_build \o cleanup_layers(r.cleanup_commands)
  IN [frame EXCEPT !.parent_image = r.base_image,
                   !.reused_base_tag = IF r.base_image # decl.base_image
                                       THEN {r.base_image} ELSE {},
                   !.reused_layer_names = r.reused,
                   !.cleanup_pkgs = cleanup_items(r.cleanup_commands),
                   !.layers_to_build = ltb,
                   !.refresh_steps = refresh_layers(decl, r.base_image, ltb),
                   !.planner_binding = binding]

PlannedFrame(r, binding) ==
  LET ltb == cleanup_layers(r.cleanup_commands) \o r.layers_to_build
  IN [frame EXCEPT !.parent_image = r.base_image,
                   !.reused_base_tag = IF r.base_image # decl.base_image
                                       THEN {r.base_image} ELSE {},
                   !.reused_layer_names = r.reused,
                   !.cleanup_pkgs = cleanup_items(r.cleanup_commands),
                   !.layers_to_build = ltb,
                   !.refresh_steps = refresh_layers(decl, r.base_image, ltb),
                   !.planner_binding = binding]

Plan ==
  /\ pc = "plan"
  /\ \E binding \in PlannerBindings :
       IF force_rebuild
       THEN /\ frame' = ForcedFrame
            /\ pc' = AfterPlan(frame')
            /\ phases' = phases \o <<"PLANNED", "BUILDING">>
            /\ UNCHANGED <<exit_code, failures, ops>>
       ELSE IF binding = "reuse.py"
       THEN /\ Return(1, "ABORTED", {"planner_call"})
            /\ frame' = [frame EXCEPT !.planner_binding = binding]
            /\ UNCHANGED ops
       ELSE /\ frame' = PlannedFrame(
                          find_optimal_base_prefixed(frame.all_layers, repo_name(decl),
                                                     base_tag_slug(decl), image_sets,
                                                     DOMAIN store),
                          binding)
            /\ pc' = AfterPlan(frame')
            /\ phases' = phases \o <<"PLANNED", "BUILDING">>
            /\ ops' = ops \cup {"images"}
            /\ UNCHANGED <<exit_code, failures>>
  /\ UNCHANGED <<decl, builder_call, force_rebuild, sidecar, store, image_sets, written, deleted, sidecar0>>

(***************************************************************************)
(* _build_layered: the refresh layers, the build loop, its failure handler.*)
(***************************************************************************)
\* lines 301-328: the next refresh layer, by _build_layer (`docker build`);
\* its RuntimeError leaves _build_layered before the try of line 336
BuildRefresh ==
  /\ pc = "refresh"
  /\ ops' = ops \cup {"build"}
  /\ LET layer == Head(frame.refresh_steps)
         image_tag == _format_layer_image_tag(decl, layer)
     IN \E built \in BOOLEAN :
          IF built
          THEN /\ store' = Put(store, image_tag, docker_built_image(store[frame.parent_image], layer))
               /\ frame' = [frame EXCEPT !.parent_image = image_tag,
                                         !.refresh_steps = Tail(frame.refresh_steps)]
               /\ pc' = AfterPlan(frame')
               /\ UNCHANGED <<exit_code, phases, failures>>
          ELSE /\ Return(1, "ABORTED", {"refresh"})
               /\ UNCHANGED <<store, frame>>
  /\ UNCHANGED <<decl, builder_call, force_rebuild, sidecar, image_sets, written, deleted, sidecar0>>

\* lines 366-380 and 431-444: the dependency items of the built and the
\* reused layers, in the order of all_layers
is_metadata_layer(l) ==
  \/ l.type \in {"apt", "yum", "pip"}
  \/ l.type = "script" /\ l.name \notin {"apt_update", "yum_makecache", "apt_cleanup_remove"}

dep_item(l) == IF l.type = "script" THEN <<"script", l.name>> ELSE <<l.type, l.content>>

\* an item list that starts with the item of the base layer
used_items_with_base(all_layers, built_layers, reused_layer_names) ==
  <<<<"base", all_layers[1].content>>>>
  \o MapSeq(dep_item,
            FilterSeq(LAMBDA l : /\ l.type # "base"
                                 /\ (l \in Range(built_layers) \/ l.name \in reused_layer_names)
                                 /\ is_metadata_layer(l),
                      all_layers))

used_items(all_layers, built_layers, reused_layer_names) ==
  MapSeq(dep_item,
         FilterSeq(LAMBDA l : /\ l.type # "base"
                              /\ (l \in Range(built_layers) \/ l.name \in reused_layer_names)
                              /\ is_metadata_layer(l),
                   all_layers))

\* ContainerLayerBuilder.build_layer: the ways a layer build ends.  commit:
\* `docker commit` wrote image_tag; import: commit failed and export/import
\* wrote it; *_rmi: the commit failed with 'max depth exceeded' and
\* `docker rmi -f parent_image` removed the parent; fail: RuntimeError
BuildOutcomes == {"commit", "import", "import_rmi", "fail", "fail_rmi"}

\* the store after build_layer(layer, parent, image_tag, metadata_items)
store_after_build(st, layer, parent, image_tag, removed, metadata_items, outcome) ==
  LET kept == IF outcome \in {"import_rmi", "fail_rmi"} THEN Drop(st, parent) ELSE st
  IN IF outcome \in {"fail", "fail_rmi"} THEN kept
     ELSE Put(kept, image_tag,
              built_image(st[parent], layer, removed, metadata_items,
                          IF outcome = "commit" THEN "commit" ELSE "import"))

rmi_by_outcome(parent, outcome) ==
  IF outcome \in {"import_rmi", "fail_rmi"} THEN {parent} ELSE {}

\* a build_layer that always flattens: stop, export, import, no commit
docker_commands_flatten_always(outcome) ==
  CASE outcome \in {"commit", "import"}
         -> <<"create", "start", "exec", "stop", "export", "import">>
    [] outcome \in {"import_rmi", "fail_rmi"}
         -> <<"create", "start", "exec", "stop", "rmi", "export", "import">>
    [] OTHER -> <<"create", "start", "exec", "stop">>

\* build_layer lines 113-265: the docker commands of a call, in order; the
\* `finally` of line 260 stops the container last.  fail: a command of the
\* layer failed; fail_rmi: commit and the import of the fallback failed
docker_commands(outcome) ==
  CASE outcome = "commit"
         -> <<"create", "start", "exec", "commit", "stop">>
    [] outcome = "import"
         -> <<"create", "start", "exec", "commit", "export", "import", "stop">>
    [] outcome \in {"import_rmi", "fail_rmi"}
         -> <<"create", "start", "exec", "commit", "rmi", "export", "import", "stop">>
    [] OTHER -> <<"create", "start", "exec", "stop">>

\* build_layer line 202: hashlib.sha256("\n".join(metadata_items)).hexdigest();
\* the joined string holds the items in the order of the list
cache_key(metadata_items) == [sha256 |-> metadata_items]

\* build_layer lines 197-213: the labels of the commit, none without items
\* (.created, the time of the call, is left out)
commit_labels(metadata_items) ==
  IF metadata_items = <<>> THEN {}
  ELSE {[version |-> "1", cache_key |-> cache_key(metadata_items),
         items_b64 |-> [b64 |-> [json |-> metadata_items]]]}

\* the call build_layer(layer, parent, image_tag, metadata_items) as it ended
BuilderCall(outcome, image_tag, metadata_items) ==
  [commands |-> docker_commands(outcome),
   image |-> IF outcome \in {"commit", "import", "import_rmi"} THEN {image_tag} ELSE {},
   metadata_items |-> metadata_items,
   labels |-> commit_labels(metadata_items)]

\* a loop that takes the layers of the plan from the last to the first
next_layer_from_the_end(f) == f.layers_to_build[Len(f.layers_to_build) - Len(f.built_layers)]

\* line 337: for i, layer in enumerate(layers_to_build)
next_layer(f) == f.layers_to_build[Len(f.built_layers) + 1]

AfterLayer(f) ==
  IF Len(f.built_layers) < Len(f.layers_to_build) THEN "build" ELSE "finalize"

\* lines 336-424: one iteration of the loop, and the handler of line 416
\* when build_layer raises: _delete_image_safely(reused_base_tag), whose own
\* failure is only printed
BuildLayer ==
  /\ pc = "build"
  /\ LET layer == next_layer(frame)
         image_tag == _format_layer_image_tag(decl, layer)
         dep_items == used_items(frame.all_layers, frame.built_layers, frame.reused_layer_names)
         removed == IF layer.name = "apt_cleanup_remove" THEN frame.cleanup_pkgs ELSE {}
     IN \E outcome \in BuildOutcomes, removable \in BOOLEAN :
          LET st == store_after_build(store, layer, frame.parent_image, image_tag,
                                      removed, dep_items, outcome)
              gone == rmi_by_outcome(frame.parent_image, outcome)
          IN /\ builder_call' = BuilderCall(outcome, image_tag, dep_items)
             /\ IF outcome \in {"commit", "import", "import_rmi"}
                THEN /\ store' = st
                     /\ frame' = [frame EXCEPT !.parent_image = image_tag,
                                               !.built_layers = Append(frame.built_layers, layer)]
                     /\ pc' = AfterLayer(frame')
                     /\ deleted' = deleted \cup gone
                     /\ ops' = ops \cup {"create", "commit"} \cup (IF gone # {} THEN {"rmi"} ELSE {})
                     /\ UNCHANGED <<exit_code, phases, failures>>
                ELSE LET doomed == frame.reused_base_tag \cap DOMAIN st
                     IN /\ store' = IF removable /\ doomed # {}
                                    THEN [r \in DOMAIN st \ doomed |-> st[r]] ELSE st
                        /\ deleted' = deleted \cup gone \cup (IF removable THEN doomed ELSE {})
                        /\ ops' = ops \cup {"create"}
                                   \cup (IF gone # {} \/ doomed # {} THEN {"rmi"} ELSE {})
                        /\ Return(1, "ABORTED",
                                  {"layer"} \cup (IF ~removable /\ doomed # {} THEN {"rmi"} ELSE {}))
                        /\ UNCHANGED frame
  /\ UNCHANGED <<decl, force_rebuild, sidecar, image_sets, written, sidecar0>>

(***************************************************************************)
(* _build_layered: finalisation and tags (lines 426-484), and the end of   *)
(* cmd_build (lines 188-203).                                              *)
(***************************************************************************)
\* _embed_dependency_metadata: the label-only layer and its tag
meta_layer == Layer("meta", "script", ":")

\* lines 428-454: embed the labels when there are items; an exception is
\* printed and the function ends without a return value
Finalize ==
  /\ pc = "finalize"
  /\ LET items == used_items(frame.all_layers, frame.built_layers, frame.reused_layer_names)
         image_tag == meta_tag(decl, Range(items))
     IN IF items = <<>>
        THEN /\ frame' = [frame EXCEPT !.final_image = frame.parent_image]
             /\ pc' = "tag_scheme"
             /\ phases' = Append(phases, "FINALIZED")
             /\ UNCHANGED <<store, deleted, ops, exit_code, failures, builder_call>>
        ELSE \E outcome \in BuildOutcomes :
               /\ builder_call' = BuilderCall(outcome, image_tag, items)
               /\ store' = store_after_build(store, meta_layer, frame.parent_image, image_tag,
                                             {}, items, outcome)
               /\ deleted' = deleted \cup rmi_by_outcome(frame.parent_image, outcome)
               /\ ops' = ops \cup {"create"}
                            \cup (IF rmi_by_outcome(frame.parent_image, outcome) # {}
                                  THEN {"rmi"} ELSE {})
               /\ IF outcome \in {"commit", "import", "import_rmi"}
                  THEN /\ frame' = [frame EXCEPT !.final_image = image_tag]
                       /\ pc' = "tag_scheme"
                       /\ phases' = Append(phases, "FINALIZED")
                       /\ UNCHANGED <<exit_code, failures>>
                  ELSE Return(1, "ABORTED", {"embed"}) /\ UNCHANGED frame
  /\ UNCHANGED <<decl, force_rebuild, sidecar, image_sets, written, sidecar0>>

\* a _build_layered that tags parent_image, the last layer built, and not
\* the image the metadata was embedded in
TagScheme_tags_parent ==
  /\ pc = "tag_scheme"
  /\ ops' = ops \cup {"tag"}
  /\ \E tagged \in BOOLEAN :
       IF tagged /\ frame.parent_image \in DOMAIN store
       THEN /\ store' = Put(store, target_ref(decl), store[frame.parent_image])
            /\ written' = written \cup {"scheme"}
            /\ pc' = "tag_classic"
            /\ UNCHANGED <<exit_code, phases, failures>>
       ELSE Return(1, "ABORTED", {"tag_scheme"}) /\ UNCHANGED <<store, written>>
  /\ UNCHANGED <<decl, builder_call, force_rebuild, sidecar, image_sets, frame, deleted, sidecar0>>

\* a _build_layered that only prints a failure of the scheme tag, as it
\* does for the classic tag
TagScheme_failure_printed ==
  /\ pc = "tag_scheme"
  /\ ops' = ops \cup {"tag"}
  /\ \E tagged \in BOOLEAN :
       IF tagged /\ frame.final_image \in DOMAIN store
       THEN /\ store' = Put(store, target_ref(decl), store[frame.final_image])
            /\ written' = written \cup {"scheme"}
            /\ UNCHANGED failures
       ELSE /\ failures' = failures \cup {"tag_scheme"}
            /\ UNCHANGED <<store, written>>
  /\ pc' = "tag_classic"
  /\ UNCHANGED <<decl, builder_call, force_rebuild, sidecar, image_sets, frame, deleted, sidecar0,
                 exit_code, phases>>

\* lines 456-468: _tag_image(final_image, target_ref) raises when `docker
\* tag` fails
TagScheme ==
  /\ pc = "tag_scheme"
  /\ ops' = ops \cup {"tag"}
  /\ \E tagged \in BOOLEAN :
       IF tagged /\ frame.final_image \in DOMAIN store
       THEN /\ store' = Put(store, target_ref(decl), store[frame.final_image])
            /\ written' = written \cup {"scheme"}
            /\ pc' = "tag_classic"
            /\ UNCHANGED <<exit_code, phases, failures>>
       ELSE Return(1, "ABORTED", {"tag_scheme"}) /\ UNCHANGED <<store, written>>
  /\ UNCHANGED <<decl, builder_call, force_rebuild, sidecar, image_sets, frame, deleted, sidecar0>>

\* lines 470-482: the classic tag, whose failure is printed, then return True
TagClassic ==
  /\ pc = "tag_classic"
  /\ ops' = ops \cup {"tag"}
  /\ \E tagged \in BOOLEAN :
       IF tagged /\ target_ref(decl) \in DOMAIN store
       THEN /\ store' = Put(store, classic_ref(decl), store[target_ref(decl)])
            /\ written' = written \cup {"classic"}
            /\ UNCHANGED failures
       ELSE /\ failures' = failures \cup {"tag_classic"}
            /\ UNCHANGED <<store, written>>
  /\ pc' = "write_sidecar"
  /\ phases' = Append(phases, "TAGGED")
  /\ UNCHANGED <<decl, builder_call, force_rebuild, sidecar, image_sets, frame, exit_code, deleted, sidecar0>>

\* cmd_build lines 188-199: success writes the checksum file; a failure of
\* the write is printed and 0 is returned all the same
WriteSidecar ==
  /\ pc = "write_sidecar"
  /\ \E stored \in BOOLEAN :
       IF stored
       THEN /\ sidecar' = {dep_checksum(decl)}
            /\ written' = written \cup {"sidecar"}
            /\ UNCHANGED failures
       ELSE /\ failures' = failures \cup {"sidecar"}
            /\ UNCHANGED <<sidecar, written>>
  /\ pc' = "done"
  /\ exit_code' = {0}
  /\ UNCHANGED <<decl, builder_call, force_rebuild, store, image_sets, frame, phases, ops, deleted, sidecar0>>

\* main lines 387-391: KeyboardInterrupt while a runtime subprocess of the
\* build runs is not an Exception; it leaves build_image and main returns 1
InterruptiblePcs == {"refresh", "build", "finalize", "tag_scheme", "tag_classic"}

Interrupt ==
  /\ pc \in InterruptiblePcs
  /\ Return(1, "ABORTED", {"interrupt"})
  /\ UNCHANGED <<decl, builder_call, force_rebuild, sidecar, store, image_sets, frame, ops, written,
                 deleted, sidecar0>>

Next ==
  \/ Preflight
  \/ Construct
  \/ CheckChecksum
  \/ Decompose
  \/ Plan
  \/ BuildRefresh
  \/ BuildLayer
  \/ Finalize
  \/ TagScheme
  \/ TagClassic
  \/ WriteSidecar
  \/ Interrupt

Spec == Init /\ [][Next]_vars

(***************************************************************************)
(* The planner on its own: find_optimal_base as reuse.py defines it, over  *)
(* caches of up to MaxCandidates entries whose images may or may not be in *)
(* the store, and the deletion of a reused base by the failure handler of  *)
(* a build, after which the next build plans again with the same cache.    *)
(***************************************************************************)
ForeignRef(k) == Ref(<<"other">>, <<"22.04">>, "candidate", {<<ToString(k)>>})

PlannerPackages ==
  CandidatePackages \cup {{}, {<<"apt", "htop">>},
                          {<<"script", "apt_update">>, <<"apt", "curl">>, <<"apt", "git">>},
                          {<<"script", "bootstrap">>}}

PlannerCaches(d) ==
  UNION {{[i \in 1..n |-> [tag |-> IF own[i] THEN CandidateRef(d, i) ELSE ForeignRef(i),
                           packages |-> p[i]]] :
            own \in [1..n -> BOOLEAN], p \in [1..n -> PlannerPackages]} :
         n \in 0..MaxCandidates}

PlannerStores(d, cache) ==
  {[r \in {d.base_image} \cup E |->
      IF r = d.base_image THEN PristineBase
      ELSE Image((CHOOSE e \in Range(cache) : e.tag = r).packages, <<>>, <<>>)] :
     E \in SUBSET {cache[i].tag : i \in 1..Len(cache)}}

PlannerInit ==
  /\ decl \in {d \in Declarations : d.valid}
  /\ force_rebuild = FALSE
  /\ sidecar = {}
  /\ sidecar0 = {}
  /\ image_sets \in PlannerCaches(decl)
  /\ store \in PlannerStores(decl, image_sets)
  /\ pc = "plan"
  /\ exit_code = {}
  /\ frame = [NoFrame EXCEPT !.all_layers = _parse_layers(decl)]
  /\ phases = <<>>
  /\ ops = {}
  /\ failures = {}
  /\ written = {}
  /\ deleted = {}
  /\ builder_call = NoCall

\* find_optimal_base(all_layers, preferred_repo=self.repo_name)
PlannerCall ==
  /\ pc = "plan"
  /\ frame' = PlannedFrame(find_optimal_base(frame.all_layers, repo_name(decl), image_sets,
                                             DOMAIN store),
                           "reuse.py")
  /\ pc' = "planned"
  /\ UNCHANGED <<decl, builder_call, force_rebuild, sidecar, store, image_sets, exit_code, phases, ops,
                 failures, written, deleted, sidecar0>>

\* _delete_image_safely(reused_base_tag) of a build that failed on the plan;
\* the cache keeps the entry of the image
DeleteReusedBase ==
  /\ pc = "planned"
  /\ frame.reused_base_tag # {}
  /\ store' = [r \in DOMAIN store \ frame.reused_base_tag |-> store[r]]
  /\ deleted' = deleted \cup frame.reused_base_tag
  /\ pc' = "plan"
  /\ UNCHANGED <<decl, builder_call, force_rebuild, sidecar, image_sets, exit_code, frame, phases, ops,
                 failures, written, sidecar0>>

PlannerNext ==
  \/ PlannerCall
  \/ DeleteReusedBase

PlannerSpec == PlannerInit /\ [][PlannerNext]_vars

(***************************************************************************)
(* Properties of one invocation (specification Spec).                      *)
(***************************************************************************)
Terminal == pc = "done"
ShortCircuited == phases = <<"CHECKSUM_MATCH">>
ChecksumMatches == ~force_rebuild /\ sidecar0 = {dep_checksum(decl)}
InitialStore == StoreOf(decl, image_sets, sidecar0 # {})

\* the failures of container-runtime operations, and the operator interrupt
RuntimeFailures ==
  {"preflight", "refresh", "layer", "embed", "tag_scheme", "tag_classic", "rmi", "interrupt"}

\* C1 (as the code has it): when the checksum file matches the declaration
\* and force_rebuild is false, the invocation builds no layer, writes or
\* moves no tag, deletes no image and leaves the checksum file alone; it
\* returns 0 once the preflight found the runtime accessible; the runtime
\* commands it runs are the read-only `docker info` of the preflight and the
\* `docker images` listing of the construction of the reuse manager.
C1_ShortCircuitReadOnly ==
  ChecksumMatches =>
    /\ store = InitialStore
    /\ sidecar = sidecar0
    /\ written = {} /\ deleted = {}
    /\ frame = NoFrame
    /\ ops \subseteq {"info", "images"}
    /\ (Terminal /\ "preflight" \notin failures => exit_code = {0} /\ ShortCircuited)

C1_Witness ==
  /\ Terminal /\ ChecksumMatches /\ ShortCircuited /\ exit_code = {0}
  /\ image_sets # <<>>

\* C1 (as stated): as above, but no container-runtime command besides the
\* initial inspection (`docker info`) is run.
C1_OnlyInitialInspect ==
  ChecksumMatches =>
    /\ store = InitialStore /\ sidecar = sidecar0 /\ written = {} /\ deleted = {}
    /\ ops \subseteq {"info"}
    /\ (Terminal /\ "preflight" \notin failures => exit_code = {0})

\* C2: a non-forced build of a valid declaration whose checksum does not
\* match, in which no runtime operation fails, passes DECOMPOSED, PLANNED,
\* BUILDING, FINALIZED in that order and ends in TAGGED with exit code 0.
C2_HappyPathReachesTagged ==
  (/\ Terminal /\ ~force_rebuild /\ sidecar0 # {dep_checksum(decl)} /\ decl.valid
   /\ failures \cap RuntimeFailures = {})
  => /\ phases = <<"DECOMPOSED", "PLANNED", "BUILDING", "FINALIZED", "TAGGED">>
     /\ exit_code = {0}

\* C3 (as the code has it): in every terminal state of a build that did
\* not short-circuit, the checksum file was written by this build only if
\* the scheme tag was, and then the build returned 0; the scheme tag is
\* written without the checksum only when the write of the checksum file
\* failed (the build still returns 0) or an operator interrupt ended the
\* build after the tag; a build that wrote neither returned 1.
C3_ChecksumOnlyAfterTag ==
  (Terminal /\ ~ShortCircuited) =>
    /\ ("sidecar" \in written => "scheme" \in written /\ exit_code = {0})
    /\ ("scheme" \in written /\ "sidecar" \notin written
          => \/ "sidecar" \in failures /\ exit_code = {0}
             \/ "interrupt" \in failures /\ exit_code = {1})
    /\ ("scheme" \notin written => exit_code = {1})

C3_Witness ==
  /\ Terminal /\ ~ShortCircuited /\ exit_code = {0}
  /\ "scheme" \in written /\ "sidecar" \notin written
  /\ failures = {"sidecar"}

\* C3 (as stated): in every terminal state of a build that did not
\* short-circuit (and that no operator interrupt ended), the scheme tag was
\* written by this build exactly if the checksum file was.
C3_TagAndChecksumTogether ==
  (Terminal /\ ~ShortCircuited /\ "interrupt" \notin failures)
  => (("scheme" \in written) <=> ("sidecar" \in written))

\* C4: a build that returns failure leaves the checksum file as it was
\* before the build; the file is only ever written by a build that then
\* returns 0.
C4_FailureKeepsChecksum ==
  /\ (exit_code = {1} => sidecar = sidecar0 /\ "sidecar" \notin written)
  /\ (sidecar # sidecar0 \/ "sidecar" \in written => Terminal /\ exit_code = {0})

C4_Witness ==
  /\ Terminal /\ exit_code = {1} /\ sidecar0 = {StaleChecksum}
  /\ "tag_scheme" \in failures

\* C5 (as the code has it): when a build that did not short-circuit returns
\* 0, the scheme tag was written by it and references its final image, and
\* a failed scheme tag operation makes the build return 1; the classic tag
\* is written to the same image when its tag operation succeeds, and its
\* failure does not fail the build.
C5_SchemeTagOnSuccess ==
  /\ (Terminal /\ exit_code = {0} /\ ~ShortCircuited) =>
       /\ "scheme" \in written
       /\ target_ref(decl) \in DOMAIN store
       /\ frame.final_image \in DOMAIN store
       /\ store[target_ref(decl)] = store[frame.final_image]
       /\ ("tag_classic" \notin failures =>
             /\ "classic" \in written
             /\ classic_ref(decl) \in DOMAIN store
             /\ store[classic_ref(decl)] = store[frame.final_image])
  /\ (Terminal /\ "tag_scheme" \in failures => exit_code = {1})

C5_Witness ==
  /\ Terminal /\ exit_code = {0} /\ ~ShortCircuited
  /\ "tag_classic" \in failures
  /\ "scheme" \in written

\* C5 (as stated): when a build that did not short-circuit returns 0, the
\* scheme tag and the classic tag both exist and reference its final image.
C5_BothTagsOnSuccess ==
  (Terminal /\ exit_code = {0} /\ ~ShortCircuited) =>
    /\ target_ref(decl) \in DOMAIN store
    /\ classic_ref(decl) \in DOMAIN store
    /\ store[target_ref(decl)] = store[frame.final_image]
    /\ store[classic_ref(decl)] = store[frame.final_image]

Planned == pc = "planned"
PlanTarget == target_set(frame.all_layers)

\* the entries of the cache that are candidates of a call: under the
\* repository of the project, their image in the store
Candidates ==
  {i \in 1..Len(image_sets) :
     image_sets[i].tag.repo = repo_name(decl) /\ image_sets[i].tag \in DOMAIN store}

\* the candidates the planner scores: those with a non-empty dependency set
Scored == {i \in Candidates : image_sets[i].packages # {}}

Complete(i) == PlanTarget \ image_sets[i].packages = {}

\* 100*|T /\ C| - 50*|T \ C| - 0.01*|C \ T|, plus 10000 when T \ C is empty,
\* times 100
StatedScore(i) ==
  LET C == image_sets[i].packages
  IN 10000 * Cardinality(PlanTarget \cap C) - 5000 * Cardinality(PlanTarget \ C)
       - Cardinality(C \ PlanTarget) + (IF PlanTarget \ C = {} THEN 1000000 ELSE 0)

\* the score the planner computes for an entry
CodeScore(i) ==
  LET C == image_sets[i].packages
  IN score(PlanTarget \cap C, PlanTarget \ C, C \ PlanTarget)

ReusesBase == Planned /\ frame.reused_base_tag # {}
ChosenIndex == CHOOSE i \in 1..Len(image_sets) : image_sets[i].tag \in frame.reused_base_tag

\* C7: a plan never names a reused base that is absent from the store, also
\* after the base of an earlier plan was deleted and its entry is still in
\* the cache.
C7_PlannedBaseExists ==
  Planned => /\ frame.reused_base_tag \subseteq DOMAIN store
             /\ frame.reused_base_tag \cap deleted = {}
             /\ frame.parent_image \in DOMAIN store

C7_Witness ==
  /\ Planned
  /\ \E i \in 1..Len(image_sets) :
       /\ image_sets[i].tag \in deleted
       /\ image_sets[i].packages \cap PlanTarget # {}
  /\ frame.reused_base_tag # {}

\* C8: the reused base of a plan is a scored candidate of the highest
\* stated score, and the first of the cache among those of that score.
C8_BestScoreFirstWins ==
  ReusesBase =>
    /\ ChosenIndex \in Scored
    /\ \A j \in Scored :
         /\ StatedScore(j) <= StatedScore(ChosenIndex)
         /\ (StatedScore(j) = StatedScore(ChosenIndex) => ChosenIndex <= j)

C8_Witness ==
  /\ ReusesBase
  /\ \E j \in Scored : j # ChosenIndex /\ StatedScore(j) = StatedScore(ChosenIndex)

\* C9: a scored candidate with nothing missing has a strictly higher score
\* than one with missing items, and a plan does not reuse an incomplete
\* candidate when a complete one was scored.
C9_CompleteDominates ==
  /\ \A i, j \in Scored : Complete(i) /\ ~Complete(j) => CodeScore(i) > CodeScore(j)
  /\ (ReusesBase /\ (\E i \in Scored : Complete(i)) => Complete(ChosenIndex))

C9_Witness ==
  /\ ReusesBase
  /\ Complete(ChosenIndex)
  /\ \E j \in Scored : j < ChosenIndex /\ ~Complete(j) /\ image_sets[j].packages \cap PlanTarget # {}

\* C10: a plan is the fallback (declared base, every non-BASE layer to
\* build, nothing reused) exactly if no candidate shares an item with the
\* target set; otherwise its base is a candidate.
FallbackPlan ==
  /\ frame.parent_image = decl.base_image
  /\ frame.layers_to_build = non_base(frame.all_layers)
  /\ frame.reused_layer_names = {}

PlanResult == find_optimal_base(frame.all_layers, repo_name(decl), image_sets, DOMAIN store)

\* the items the best image and the target set share
PlanIntersection == PlanTarget \cap image_sets[ChosenIndex].packages

\* the dependency item of an APT, YUM, PIP or SCRIPT layer: "<type>:<pkg>"
\* or "script:<name>"
IsDependencyLayer(l) == l.type \in {"apt", "yum", "pip", "script"}

\* C11: when a base is reused, layers_to_build is the subsequence, in the
\* order of the declaration, of the non-BASE layers that are CONFIG or whose
\* dependency item is not in the intersection, reused_names is the set of
\* names of the layers whose item is in the intersection, and every APT,
\* YUM, PIP and SCRIPT layer is in one of the two.
C11_PlanPartitionsLayers ==
  ReusesBase =>
    /\ PlanResult.layers_to_build
         = FilterSeq(LAMBDA l : l.type = "config" \/ dep_item(l) \notin PlanIntersection,
                     non_base(frame.all_layers))
    /\ PlanResult.reused
         = {l.name : l \in {x \in Range(non_base(frame.all_layers)) :
                              IsDependencyLayer(x) /\ dep_item(x) \in PlanIntersection}}
    /\ \A l \in Range(non_base(frame.all_layers)) :
         IsDependencyLayer(l) =>
           l \in Range(PlanResult.layers_to_build) \/ l.name \in PlanResult.reused

\* the names of the maintenance layers
MaintenanceNames ==
  {"apt_update", "yum_makecache", "apt_refresh", "yum_refresh", "apt_cleanup_remove"}

IsMaintenanceLayer(l) == l.type = "script" /\ l.name \in MaintenanceNames

\* the items that stand for a maintenance layer or a CONFIG layer
IsMaintenanceItem(item) ==
  \/ item[1] = "script" /\ item[2] \in MaintenanceNames
  \/ item[1] = "config"

\* C12: the target set of a plan holds the dependency item of every APT,
\* YUM, PIP and SCRIPT (install) layer of the declaration, and holds no item
\* of a maintenance layer or of a CONFIG layer.
C12_TargetSetIsDependencySet ==
  Planned =>
    /\ \A l \in Range(non_base(frame.all_layers)) :
         IsDependencyLayer(l) /\ ~IsMaintenanceLayer(l) => dep_item(l) \in PlanTarget
    /\ \A item \in PlanTarget : ~IsMaintenanceItem(item)

ConfigLayers == {l \in Range(non_base(frame.all_layers)) : l.type = "config"}

\* the layers the orchestrator logs as reused
CountedAsReused == {l \in Range(non_base(frame.all_layers)) : l.name \in frame.reused_layer_names}

PlanFor(d) == find_optimal_base(_parse_layers(d), repo_name(d), image_sets, DOMAIN store)

\* the declaration with one more APT package; the declaration already has an
\* APT package, so the target set grows by the one item apt:p
WithPackage(d, p) == [d EXCEPT !.apt = Append(@, p)]

\* C14: for the pool of the state, the plan of the declaration with one more
\* package has no shorter layers_to_build and no larger reused set than the
\* plan of the declaration.
C14_PlannerMonotone ==
  Planned /\ decl.apt # <<>> =>
    \A p \in AptPkgs \ Range(decl.apt) :
      /\ Len(PlanFor(WithPackage(decl, p)).layers_to_build) >= Len(PlanFor(decl).layers_to_build)
      /\ Cardinality(PlanFor(WithPackage(decl, p)).reused) <= Cardinality(PlanFor(decl).reused)

\* the names of the layers injected by the refresh phase
InjectedNames == {"apt_sources", "apt_refresh", "yum_refresh"}
CleanupNames == {"apt_cleanup_remove"}

PlanExtra == image_sets[ChosenIndex].packages \ PlanTarget

\* f"{pm_name}_cleanup_remove"
CleanupName(m) ==
  CASE m = "apt" -> "apt_cleanup_remove"
    [] m = "yum" -> "yum_cleanup_remove"
    [] m = "pip" -> "pip_cleanup_remove"
    [] OTHER -> "script_cleanup_remove"

CleanupLayersOf(m) ==
  {i \in 1..Len(frame.layers_to_build) : frame.layers_to_build[i].name = CleanupName(m)}

\* C16: for each manager of apt, yum, pip with an extra item in the chosen
\* base the plan has exactly one <manager>_cleanup_remove layer, removing
\* exactly the extra packages of the manager; without extras of the manager,
\* and for extra scripts, there is no cleanup layer.
C16_CleanupPerManager ==
  ReusesBase =>
    /\ \A m \in {"apt", "yum", "pip"} :
         LET ex == {i \in PlanExtra : i[1] = m}
         IN /\ Cardinality(CleanupLayersOf(m)) = (IF ex # {} THEN 1 ELSE 0)
            /\ {i \in frame.cleanup_pkgs : i[1] = m} = ex
    /\ CleanupLayersOf("script") = {}

\* the refresh phase of a build is over and the build has not failed
RefreshDone ==
  /\ pc \in InterruptiblePcs \ {"refresh"}
  /\ frame.parent_image \in DOMAIN store

\* the names of the layers built so far on the base the build started from
BuildHistory == store[frame.parent_image].history

ResidualInstalls(m) == {l.name : l \in {x \in Range(frame.layers_to_build) : x.type = m}}

RefreshPositions(m) ==
  {i \in 1..Len(BuildHistory) : BuildHistory[i] = (IF m = "apt" THEN "apt_refresh" ELSE "yum_refresh")}

Succeeded ==
  /\ pc = "done"
  /\ exit_code = {0}
  /\ "scheme" \in written
  /\ target_ref(decl) \in DOMAIN store

\* the item list in the labels of the final image
FinalLabels == Range(store[target_ref(decl)].labels)

\* the items of the packages and script installs of a declaration
DeclaredItems(d) ==
  {<<"apt", p>> : p \in Range(d.apt)} \cup {<<"pip", p>> : p \in Range(d.pip)}
    \cup {<<"script", n>> : n \in Range(d.scripts)}

\* C18: after a successful build the items in the labels of the final image
\* are, as a set, the items of the declared packages and script installs.
C18_LabelsAreDeclaredItems == Succeeded => FinalLabels = DeclaredItems(decl)

\* the labels of the final image hold the item of the declared base image
C19_LabelsHoldBase ==
  Succeeded => \E item \in FinalLabels : item[1] = "base"

\* C19: the item list in the labels of a successfully built final image holds
\* package and script items only; the item base:<base_image> is an item of
\* the checksum, not of the labels.
C19_LabelsWithoutBase ==
  Succeeded =>
    /\ \A item \in FinalLabels : item[1] \in {"apt", "yum", "pip", "script"}
    /\ base_item(decl.base_image) \in _collect_dep_items(decl)

C19_Witness ==
  /\ Succeeded
  /\ <<"apt", "curl">> \in FinalLabels
  /\ frame.final_image # frame.parent_image

\* the position of a docker command in the last call of build_layer, 0 when
\* the call did not run it
CommandAt(c) ==
  IF c \in Range(builder_call.commands)
  THEN CHOOSE i \in 1..Len(builder_call.commands) : builder_call.commands[i] = c
  ELSE 0

Building == "BUILDING" \in Range(phases)

\* the images of the cache
CachedImages == {image_sets[i].tag : i \in 1..Len(image_sets)}

\* the names of the layers built so far, in order
BuiltNames == MapSeq(LAMBDA l : l.name, frame.built_layers)

MaxTokens == 3
Whitespace == " "

\* the apt_packages list of a config file as written: entries and the
\* whitespace between and around them
ConfigTokens == AptPkgs \cup {Whitespace}

SeqsUpTo(S, n) == UNION {[1..k -> S] : k \in 0..n}

ConfigFiles ==
  [base_image : BaseImages,
   apt_packages : SeqsUpTo(ConfigTokens, MaxTokens),
   script_installs : {<<>>} \cup {<<[name |-> n, commands |-> c]>> : n \in ScriptNames,
                                                                     c \in ScriptBodies}]

\* _load_config_dict: yaml.safe_load or json.load drops the whitespace
\* between the entries of a list
_load_config_dict(f) ==
  [base_image |-> f.base_image,
   apt |-> FilterSeq(LAMBDA t : t # Whitespace, f.apt_packages),
   pip |-> <<>>,
   scripts |-> MapSeq(LAMBDA i : i.name, f.script_installs),
   script_commands |-> IF f.script_installs = <<>> THEN "echo a"
                       ELSE f.script_installs[1].commands,
   configs |-> <<>>,
   apt_sources |-> FALSE,
   valid |-> TRUE]

ChecksumInit ==
  /\ decl \in {_load_config_dict(f) : f \in ConfigFiles}
  /\ force_rebuild = FALSE
  /\ sidecar = {}
  /\ sidecar0 = {}
  /\ image_sets = <<>>
  /\ store = StoreOf(decl, <<>>, FALSE)
  /\ pc = "checksum"
  /\ exit_code = {}
  /\ frame = NoFrame
  /\ phases = <<>>
  /\ ops = {}
  /\ failures = {}
  /\ written = {}
  /\ deleted = {}
  /\ builder_call = NoCall

\* cli.py lines 183-186: orchestrator.build_image, by its result
BuildImage ==
  /\ pc = "decompose"
  /\ \E success \in BOOLEAN :
       IF success
       THEN /\ pc' = "write_sidecar"
            /\ phases' = Append(phases, "TAGGED")
            /\ UNCHANGED <<exit_code, failures>>
       ELSE Return(1, "ABORTED", {"build"})
  /\ UNCHANGED <<decl, builder_call, force_rebuild, sidecar, store, image_sets, frame, ops, written,
                 deleted, sidecar0>>

\* the config file is edited and cmd_build is invoked again
EditConfig ==
  /\ pc = "done"
  /\ \E f \in ConfigFiles : decl' = _load_config_dict(f)
  /\ pc' = "checksum"
  /\ exit_code' = {}
  /\ phases' = <<>>
  /\ failures' = {}
  /\ written' = {}
  /\ sidecar0' = sidecar
  /\ UNCHANGED <<builder_call, force_rebuild, sidecar, store, image_sets, frame, ops, deleted>>

ChecksumNext ==
  \/ CheckChecksum
  \/ BuildImage
  \/ WriteSidecar
  \/ EditConfig

ChecksumSpec == ChecksumInit /\ [][ChecksumNext]_vars

\* the entries of a declaration, without their order and their repetitions
EntriesOf(d) ==
  [base_image |-> d.base_image, apt |-> Range(d.apt), pip |-> Range(d.pip),
   scripts |-> Range(d.scripts)]

WithCommands(d, c) == [d EXCEPT !.script_commands = c]

ScriptInstallLayers ==
  {l \in Range(non_base(frame.all_layers)) : l.type = "script" /\ l.name \in ScriptNames}

FinalApt == {i \in store[target_ref(decl)].installed : i[1] = "apt"}

MaxNameLen == 4
NameChars == {"a", "7", ".", "-", "_", "/", ":", "+"}
BaseImageNames == SeqsUpTo(NameChars, MaxNameLen) \ {<<>>}

SlugInit ==
  /\ decl \in {[base_image |-> NamedImage(s), apt |-> <<>>, pip |-> <<>>, scripts |-> <<>>,
                script_commands |-> "echo a"] : s \in BaseImageNames}
  /\ force_rebuild = FALSE
  /\ sidecar = {}
  /\ sidecar0 = {}
  /\ image_sets = <<>>
  /\ store = [r \in {decl.base_image} |-> PristineBase]
  /\ pc = "names"
  /\ exit_code = {}
  /\ frame = NoFrame
  /\ phases = <<>>
  /\ ops = {}
  /\ failures = {}
  /\ written = {}
  /\ deleted = {}
  /\ builder_call = NoCall

\* build_orchestrator.py lines 178-183: the naming scheme components
ComputeNames ==
  /\ pc = "names"
  /\ frame' = [base_repo_slug |-> base_repo_slug(decl), base_tag_slug |-> base_tag_slug(decl),
               repo_name |-> repo_name(decl), final_image |-> decl.base_image]
  /\ pc' = "tag_scheme"
  /\ UNCHANGED <<decl, force_rebuild, sidecar, store, image_sets, exit_code, phases, ops,
                 failures, written, deleted, sidecar0, builder_call>>

\* build_orchestrator.py lines 455-466: docker tag final_image target_ref
TagTarget ==
  /\ pc = "tag_scheme"
  /\ store' = Put(store, Ref(frame.repo_name, frame.base_tag_slug, "final", {<<ImageTag>>}),
                  store[frame.final_image])
  /\ written' = written \cup {"scheme"}
  /\ pc' = "done"
  /\ UNCHANGED <<decl, force_rebuild, sidecar, image_sets, exit_code, frame, phases, ops,
                 failures, deleted, sidecar0, builder_call>>

SlugNext == ComputeNames \/ TagTarget

SlugSpec == SlugInit /\ [][SlugNext]_vars

\* the repo and the tag _slugify is applied to
SlugInputs(s) ==
  LET parsed == _parse_base_image(s)
  IN <<parsed[1], IF parsed[2] = <<>> THEN <<"l", "a", "t", "e", "s", "t">> ELSE parsed[2]>>

\* the slug as stated: the characters of [A-Za-z0-9._-] are kept
StatedSlug(s) ==
  [i \in 1..Len(s) |-> IF s[i] \in Alnum \cup {".", "_", "-"} THEN s[i] ELSE "_"]

\* the slug the names hold: letters, digits, '-' and '_' are kept
KeptSlug(s) ==
  [i \in 1..Len(s) |-> IF s[i] \in Alnum \cup {"_", "-"} THEN s[i] ELSE "_"]

NamesComputed == pc \in {"tag_scheme", "done"} /\ decl.base_image.kind = "name"

Reorderings(cache) ==
  {[i \in 1..Len(cache) |-> cache[f[i]]] :
     f \in {g \in [1..Len(cache) -> 1..Len(cache)] :
              \A i, j \in 1..Len(cache) : i # j => g[i] # g[j]}}

\* the best candidate and the plan of the call of the state, had the cache
\* been iterated in another order
BestIn(cache) == best_of(cache, PlanTarget, repo_name(decl), DOMAIN store, NoBest)
PlanIn(cache) == find_optimal_base(frame.all_layers, repo_name(decl), cache, DOMAIN store)

ChosenBase ==
  IF frame.reused_base_tag # {} THEN CHOOSE t \in frame.reused_base_tag : TRUE
  ELSE decl.base_image

\* the refresh layers of the build, and those built so far
PlannedRefresh ==
  IF frame.planner_binding = NoValue THEN <<>>
  ELSE refresh_layers(decl, ChosenBase, frame.layers_to_build)
BuiltRefresh == SubSeq(PlannedRefresh, 1, Len(PlannedRefresh) - Len(frame.refresh_steps))

LayerName(l) == l.name

\* the names of the layers built so far, in the order they were built
BuiltChain == MapSeq(LayerName, BuiltRefresh \o frame.built_layers)

FinalItems == used_items(frame.all_layers, frame.built_layers, frame.reused_layer_names)

\* this build has put the scheme tag on an image
TaggedFinal == "scheme" \in written /\ target_ref(decl) \in DOMAIN store

TaggedAfterFinalized ==
  \A i \in 1..Len(phases) :
    phases[i] = "TAGGED" => \E j \in 1..(i - 1) : phases[j] = "FINALIZED"

\* C28 (as stated): TAGGED comes only after FINALIZED; every image a build
\* tags under the scheme tag carries the labels the label-only layer wrote,
\* also when the dependency set of the declaration is empty; a build whose
\* embedding failed does not tag and fails.
C28_TaggedImageLabelled ==
  /\ TaggedAfterFinalized
  /\ (TaggedFinal =>
        /\ store[target_ref(decl)].labels # <<>>
        /\ store[target_ref(decl)].labels = FinalItems
        /\ store[target_ref(decl)].history = Append(BuiltChain, meta_layer.name))
  /\ ("embed" \in failures => "scheme" \notin written /\ exit_code = {1})

\* C28 (as the code has it): TAGGED comes only after FINALIZED; an image a
\* build tags under the scheme tag carries the labels the label-only layer
\* wrote when the item list of the build is not empty, and is the image of
\* the last layer, without a label-only layer and without labels, when the
\* list is empty; a build whose embedding failed does not tag and fails.
C28_LabelledWhenItems ==
  /\ TaggedAfterFinalized
  /\ (TaggedFinal /\ FinalItems # <<>> =>
        /\ store[target_ref(decl)].labels = FinalItems
        /\ store[target_ref(decl)].history = Append(BuiltChain, meta_layer.name))
  /\ (TaggedFinal /\ FinalItems = <<>> =>
        /\ store[target_ref(decl)].labels = <<>>
        /\ store[target_ref(decl)].history = BuiltChain)
  /\ ("embed" \in failures => "scheme" \notin written /\ exit_code = {1})

\* a build with items has tagged the image of its label-only layer
C28_Witness ==
  /\ Succeeded
  /\ "TAGGED" \in Range(phases)
  /\ FinalItems # <<>>
  /\ store[target_ref(decl)].labels = FinalItems
  /\ store[target_ref(decl)].history = Append(BuiltChain, meta_layer.name)

(***************************************************************************)
(* The labels of the images of the layers.                                 *)
(***************************************************************************)
\* the image of the layer built last is in the store
LayerBuilt ==
  /\ pc \in {"build", "finalize"}
  /\ frame.built_layers # <<>>
  /\ frame.parent_image \in DOMAIN store

\* C29: after a layer is built, the item list in the labels of its image is
\* the items of the reused layers and of the layers built so far, the layer
\* itself included.
C29_LayerImageHasCompleteSet ==
  LayerBuilt =>
    store[frame.parent_image].labels =
      used_items(frame.all_layers, frame.built_layers, frame.reused_layer_names)

(***************************************************************************)
(* The cache key in the labels.                                            *)
(***************************************************************************)
\* the .cache_key label of the last call of build_layer
CacheKeyLabel == {l.cache_key : l \in builder_call.labels}

\* C30: the .cache_key label is the hash of the sorted item list: every
\* item list that is a permutation of the list of a call gives the
\* .cache_key of that call.
C30_CacheKeyOfSortedItems ==
  builder_call.labels # {} =>
    \A items \in Reorderings(builder_call.metadata_items) :
      {l.cache_key : l \in commit_labels(items)} = CacheKeyLabel

(***************************************************************************)
(* container_layer_builder.py: one call of build_layer, command by         *)
(* command.  frame holds the arguments and locals of the call,             *)
(* builder_call.commands the docker commands run so far with their return  *)
(* codes, written the tags the call wrote.                                 *)
(***************************************************************************)
ReturnCodes == {0, 1}

\* a script install given as a file of the config directory
ScriptFile == "file:setup.sh"

BuilderLayers ==
  {AptLayer("curl"), ScriptLayer("bootstrap", "echo a"), ScriptLayer("bootstrap", ScriptFile)}

\* copies: the "src:dst" mappings of the call
BuilderCopies == {<<>>, <<"conf:/etc/conf">>}

\* lines 146-184: the commands of a layer, each run by its own exec
layer_cmds(layer) ==
  IF layer.type = "apt"
  THEN <<"set -e; export DEBIAN_FRONTEND=noninteractive", "apt-get update",
         "apt-get install -y", "rm -rf /var/lib/apt/lists/* || true">>
  ELSE IF layer.type = "yum" THEN <<"set -e; yum install -y">>
  ELSE IF layer.type = "pip" THEN <<"set -e; python3 -m pip install --no-cache-dir">>
  ELSE IF layer.type \in {"script", "config"} THEN <<"set -e; runlines">>
  ELSE <<>>

\* lines 163-178: the file: entries of a SCRIPT or CONFIG layer
file_entries(layer) ==
  IF layer.type \in {"script", "config"} /\ layer.content = ScriptFile THEN 1 ELSE 0

Docker(cmd, arg, rc) == [cmd |-> cmd, arg |-> arg, rc |-> rc]

\* the image an earlier build left under the tag of the layer
EarlierLayerImage == Image({}, <<"earlier">>, <<>>)

BuilderInit ==
  /\ decl = [base_image |-> BaseImage, apt |-> <<>>, pip |-> <<>>, scripts |-> <<>>,
             script_commands |-> "echo a"]
  /\ force_rebuild = FALSE
  /\ sidecar = {}
  /\ sidecar0 = {}
  /\ image_sets = <<>>
  /\ \E layer \in BuilderLayers, copies \in BuilderCopies, tagged \in BOOLEAN :
       /\ frame = [layer |-> layer, parent_image |-> decl.base_image,
                   image_tag |-> _format_layer_image_tag(decl, layer), copies |-> copies,
                   files |-> file_entries(layer), cmds |-> layer_cmds(layer),
                   container |-> FALSE]
       /\ store = IF tagged
                  THEN Put([r \in {decl.base_image} |-> PristineBase],
                           _format_layer_image_tag(decl, layer), EarlierLayerImage)
                  ELSE [r \in {decl.base_image} |-> PristineBase]
  /\ pc = "create"
  /\ exit_code = {}
  /\ phases = <<>>
  /\ ops = {}
  /\ failures = {}
  /\ written = {}
  /\ deleted = {}
  /\ builder_call \in {[NoCall EXCEPT !.metadata_items = m, !.labels = commit_labels(m)] :
                         m \in {<<>>, <<<<"apt", "curl">>>>}}

Ran(cmds) == [builder_call EXCEPT !.commands = @ \o cmds]

AfterStart(f) ==
  IF f.files > 0 THEN "file" ELSE IF f.cmds # <<>> THEN "exec" ELSE "commit"

\* lines 121-128: docker create; a return code other than 0 raises
BuilderCreate ==
  /\ pc = "create"
  /\ \E rc \in ReturnCodes :
       /\ builder_call' = Ran(<<Docker("create", frame.parent_image, rc)>>)
       /\ IF rc # 0
          THEN /\ failures' = failures \cup {"RuntimeError"}
               /\ pc' = "finally"
               /\ UNCHANGED frame
          ELSE /\ frame' = [frame EXCEPT !.container = TRUE]
               /\ pc' = IF frame.copies # <<>> THEN "copy" ELSE "start"
               /\ UNCHANGED failures
  /\ UNCHANGED <<decl, force_rebuild, sidecar, store, image_sets, exit_code, phases, ops,
                 written, deleted, sidecar0>>

\* lines 130-146: one copy mapping; the return code of the exec that
\* creates the destination is not looked at
BuilderCopy ==
  /\ pc = "copy"
  /\ \E rc \in ReturnCodes :
       builder_call' = Ran(<<Docker("start", "", 0), Docker("exec", "mkdir -p dst", rc),
                             Docker("stop", "", 0), Docker("cp", Head(frame.copies), 0)>>)
  /\ frame' = [frame EXCEPT !.copies = Tail(@)]
  /\ pc' = IF Tail(frame.copies) # <<>> THEN "copy" ELSE "start"
  /\ UNCHANGED <<decl, force_rebuild, sidecar, store, image_sets, exit_code, phases, ops,
                 failures, written, deleted, sidecar0>>

\* line 149: docker start
BuilderStart ==
  /\ pc = "start"
  /\ builder_call' = Ran(<<Docker("start", "", 0)>>)
  /\ pc' = AfterStart(frame)
  /\ UNCHANGED <<decl, force_rebuild, sidecar, store, image_sets, exit_code, frame, phases,
                 ops, failures, written, deleted, sidecar0>>

\* lines 168-178: one file: entry; the return codes of the two execs are
\* not looked at
BuilderFileEntry ==
  /\ pc = "file"
  /\ \E rc1 \in ReturnCodes, rc2 \in ReturnCodes :
       builder_call' =
         Ran(<<Docker("exec", "mkdir -p /dependency_img_build && chmod 0777", rc1),
               Docker("stop", "", 0), Docker("cp", "setup.sh", 0), Docker("start", "", 0),
               Docker("exec", "chmod +x", rc2)>>)
  /\ frame' = [frame EXCEPT !.files = @ - 1]
  /\ pc' = AfterStart(frame')
  /\ UNCHANGED <<decl, force_rebuild, sidecar, store, image_sets, exit_code, phases, ops,
                 failures, written, deleted, sidecar0>>

\* _exec_multi (lines 91-95), called at line 193: the next command of the
\* layer; a return code other than 0 raises
BuilderExec ==
  /\ pc = "exec"
  /\ \E rc \in ReturnCodes :
       /\ builder_call' = Ran(<<Docker("exec", Head(frame.cmds), rc)>>)
       /\ IF rc # 0
          THEN /\ failures' = failures \cup {"RuntimeError"}
               /\ pc' = "finally"
               /\ UNCHANGED frame
          ELSE /\ frame' = [frame EXCEPT !.cmds = Tail(@)]
               /\ pc' = IF Tail(frame.cmds) # <<>> THEN "exec" ELSE "commit"
               /\ UNCHANGED failures
  /\ UNCHANGED <<decl, force_rebuild, sidecar, store, image_sets, exit_code, phases, ops,
                 written, deleted, sidecar0>>

\* lines 221-258: docker commit, and export/import when it fails
BuilderCommit ==
  /\ pc = "commit"
  /\ \E outcome \in BuildOutcomes \ {"fail"} :
       LET all == docker_commands(outcome)
           tail == SubSeq(all, 4, Len(all) - 1)
       IN /\ builder_call' =
               [Ran([i \in 1..Len(tail) |->
                       Docker(tail[i], "",
                              IF tail[i] = "commit" /\ outcome # "commit" THEN 1
                              ELSE IF tail[i] = "import" /\ outcome = "fail_rmi" THEN 1 ELSE 0)])
                  EXCEPT !.image = IF outcome = "fail_rmi" THEN {} ELSE {frame.image_tag}]
          /\ store' = store_after_build(store, frame.layer, frame.parent_image, frame.image_tag,
                                        {}, builder_call.metadata_items, outcome)
          /\ deleted' = deleted \cup rmi_by_outcome(frame.parent_image, outcome)
          /\ written' = IF outcome = "fail_rmi" THEN written ELSE written \cup {frame.image_tag}
          /\ failures' = IF outcome = "fail_rmi" THEN failures \cup {"RuntimeError"} ELSE failures
  /\ pc' = "finally"
  /\ UNCHANGED <<decl, force_rebuild, sidecar, image_sets, exit_code, frame, phases, ops,
                 sidecar0>>

\* lines 260-265: finally, stop the container if one was created
BuilderFinally ==
  /\ pc = "finally"
  /\ builder_call' = IF frame.container THEN Ran(<<Docker("stop", "", 0)>>) ELSE builder_call
  /\ pc' = "done"
  /\ UNCHANGED <<decl, force_rebuild, sidecar, store, image_sets, exit_code, frame, phases,
                 ops, failures, written, deleted, sidecar0>>

BuilderNext ==
  \/ BuilderCreate
  \/ BuilderCopy
  \/ BuilderStart
  \/ BuilderFileEntry
  \/ BuilderExec
  \/ BuilderCommit
  \/ BuilderFinally

BuilderSpec == BuilderInit /\ [][BuilderNext]_vars

\* the positions of the commands that create the container or run inside
\* it and returned a code other than 0
FailedAt ==
  {i \in 1..Len(builder_call.commands) :
     /\ builder_call.commands[i].cmd \in {"create", "exec"}
     /\ builder_call.commands[i].rc # 0}

\* the positions of the commands that work on the layer: exec, cp, commit
\* and the fallback of commit
LayerWork ==
  {i \in 1..Len(builder_call.commands) :
     builder_call.commands[i].cmd \in {"exec", "cp", "commit", "export", "import"}}

\* C31: when docker create or an exec inside the container (the creation
\* of a destination, a chmod, a command of the layer) returns a code other
\* than 0, build_layer raises, runs no later command of the layer and
\* neither creates nor moves the tag of the target image.
C31_FailedExecRaises ==
  \A i \in FailedAt :
    /\ \A j \in LayerWork : j <= i
    /\ frame.image_tag \notin written
    /\ pc \in {"finally", "done"}
    /\ "RuntimeError" \in failures

(***************************************************************************)
(* Declarations that use every source of packages and scripts: the legacy  *)
(* top-level fields, heavy_setup, light_setup and the `layers` map.         *)
(* top_pip is the pip_packages key of the config file, which the           *)
(* declaration has no field for.                                           *)
(***************************************************************************)
OneOf(x) == {<<>>, <<x>>}

\* the `layers` map; given is FALSE when the declaration has none
LayersMaps ==
  {m \in [given : BOOLEAN, apt : OneOf("curl"), yum : OneOf("nano"),
          scripts : OneOf("bootstrap")] :
     ~m.given => (m.apt = <<>> /\ m.yum = <<>> /\ m.scripts = <<>>)}

ConfigSources ==
  [base_image : BaseImages,
   top_apt : OneOf("curl"), top_yum : OneOf("nano"), top_pip : OneOf("requests"),
   heavy_apt : OneOf("git"), heavy_yum : OneOf("nano"), heavy_pip : OneOf("requests"),
   heavy_scripts : OneOf("bootstrap"),
   light_setup : OneOf("motd"),
   layers : LayersMaps,
   apt_sources : BOOLEAN]

YumLayer(pkg) == Layer(SafeName(pkg), "yum", pkg)
ScriptOf(name) == ScriptLayer(name, "echo a")

\* BuildOrchestrator._parse_layers, every source (lines 619-751)
_parse_layers_of_config(u) ==
  LET has_apt_packages == u.heavy_apt # <<>> \/ u.top_apt # <<>>
      has_yum_packages == u.heavy_yum # <<>> \/ u.top_yum # <<>>
  IN <<Layer("base", "base", RefName(u.base_image))>>
     \o (IF has_apt_packages
         THEN (IF u.apt_sources THEN <<Layer("apt_sources", "script", "sources_cmd")>> ELSE <<>>)
              \o <<Layer("apt_update", "script", "apt-get update")>>
         ELSE <<>>)
     \o (IF has_yum_packages THEN <<Layer("yum_makecache", "script", "yum makecache")>> ELSE <<>>)
     \o MapSeq(AptLayer, u.heavy_apt)
     \o MapSeq(YumLayer, u.heavy_yum)
     \o MapSeq(ScriptOf, u.heavy_scripts)
     \o MapSeq(PipLayer, u.heavy_pip)
     \o MapSeq(ConfigLayer, u.light_setup)
     \o (IF u.layers.given
         THEN MapSeq(AptLayer, u.layers.apt) \o MapSeq(YumLayer, u.layers.yum)
              \o MapSeq(ScriptOf, u.layers.scripts)
         ELSE MapSeq(AptLayer, u.top_apt))

\* cli.py _collect_dep_items, every source (lines 112-153): sorted(set(items))
_collect_dep_items_of_config(u) ==
  {base_item(u.base_image)}
    \cup {<<"apt", p>> : p \in Range(u.top_apt)} \cup {<<"yum", p>> : p \in Range(u.top_yum)}
    \cup {<<"pip", p>> : p \in Range(u.top_pip)}
    \cup {<<"apt", p>> : p \in Range(u.heavy_apt)} \cup {<<"yum", p>> : p \in Range(u.heavy_yum)}
    \cup {<<"pip", p>> : p \in Range(u.heavy_pip)}
    \cup {<<"script", n>> : n \in Range(u.heavy_scripts)}
    \cup (IF u.layers.given
          THEN {<<"apt", p>> : p \in Range(u.layers.apt)}
                 \cup {<<"yum", p>> : p \in Range(u.layers.yum)}
                 \cup {<<"script", n>> : n \in Range(u.layers.scripts)}
          ELSE {})

SourcesInit ==
  /\ decl \in ConfigSources
  /\ force_rebuild = FALSE
  /\ sidecar = {}
  /\ sidecar0 = {}
  /\ image_sets = <<>>
  /\ store = [r \in {decl.base_image} |-> PristineBase]
  /\ pc = "checksum"
  /\ exit_code = {}
  /\ frame = NoFrame
  /\ phases = <<>>
  /\ ops = {}
  /\ failures = {}
  /\ written = {}
  /\ deleted = {}
  /\ builder_call = NoCall

\* cli.py lines 155-162: dep_items and dep_checksum of the config
CollectItems ==
  /\ pc = "checksum"
  /\ sidecar' = {[sha256 |-> _collect_dep_items_of_config(decl)]}
  /\ pc' = "decompose"
  /\ UNCHANGED <<decl, force_rebuild, store, image_sets, exit_code, frame, phases, ops,
                 failures, written, deleted, sidecar0, builder_call>>

\* build_orchestrator.py line 170: all_layers = self._parse_layers(declaration)
ParseLayers ==
  /\ pc = "decompose"
  /\ frame' = [frame EXCEPT !.all_layers = _parse_layers_of_config(decl)]
  /\ phases' = Append(phases, "DECOMPOSED")
  /\ pc' = "plan"
  /\ UNCHANGED <<decl, force_rebuild, sidecar, store, image_sets, exit_code, ops, failures,
                 written, deleted, sidecar0, builder_call>>

SourcesNext == CollectItems \/ ParseLayers

SourcesSpec == SourcesInit /\ [][SourcesNext]_vars

Decomposed == pc = "plan" /\ "DECOMPOSED" \in Range(phases)

\* the phase of a layer: apt_sources, refresh, package, script, CONFIG
PhaseOf(l) ==
  IF l.type = "base" THEN 0
  ELSE IF l.type = "script" /\ l.name = "apt_sources" THEN 1
  ELSE IF l.type = "script" /\ l.name \in {"apt_update", "yum_makecache"} THEN 2
  ELSE IF l.type \in {"apt", "yum", "pip"} THEN 3
  ELSE IF l.type = "script" THEN 4
  ELSE 5

\* C32: the decomposed list of every declaration has exactly one BASE
\* layer, first, and its layers are in the order apt_sources, refresh
\* layers, package layers, script layers, CONFIG layers; no package or script
\* layer of any source follows a CONFIG layer.
C32_LayersInPhaseOrder ==
  Decomposed =>
    LET L == frame.all_layers
    IN /\ L # <<>>
       /\ L[1].type = "base"
       /\ \A i \in 2..Len(L) : L[i].type # "base"
       /\ \A i, j \in 1..Len(L) : i < j => PhaseOf(L[i]) <= PhaseOf(L[j])

\* the dependency items of the layers _parse_layers emits: packages by
\* "<type>:<pkg>", script installs by "script:<name>"; the layers that write
\* the sources and refresh the package index are no dependencies
DecomposedItems(u) ==
  {dep_item(l) : l \in {x \in Range(_parse_layers_of_config(u)) :
                          /\ x.type \in {"apt", "yum", "pip", "script"}
                          /\ x.name \notin {"apt_sources", "apt_update", "yum_makecache"}}}

\* the item list of the checksum without base:<base_image>
ChecksumItems(u) == {i \in _collect_dep_items_of_config(u) : i[1] # "base"}

\* C38: for every declaration the package and script items of the list of
\* the checksum are, as a set, the dependency items of the layers the
\* decomposer emits; two declarations have the same checksum exactly when
\* they have the same base image and decompose to the same item set.
C38_ChecksumItemsAreDecomposedItems ==
  Decomposed =>
    /\ sidecar = {[sha256 |-> _collect_dep_items_of_config(decl)]}
    /\ ChecksumItems(decl) = {dep_item(l) : l \in {x \in Range(frame.all_layers) :
                                /\ x.type \in {"apt", "yum", "pip", "script"}
                                /\ x.name \notin {"apt_sources", "apt_update", "yum_makecache"}}}
    /\ \A u \in ConfigSources :
         (_collect_dep_items_of_config(u) = _collect_dep_items_of_config(decl))
           <=> (u.base_image = decl.base_image /\ DecomposedItems(u) = DecomposedItems(decl))

(***************************************************************************)
(* The checksum file at the start of a build.                              *)
(***************************************************************************)
NoPriorBuild == sidecar0 \in {{}, {UnreadableFile}}

C34_OnlyReusedBaseDeleted ==
  /\ decl.base_image \notin deleted
  /\ decl.base_image \in DOMAIN store
  /\ deleted \subseteq (frame.reused_base_tag \ {decl.base_image})
  /\ (deleted # {} => "layer" \in failures)

(***************************************************************************)
(* Builds of one operator, one after the other, on the same store and the  *)
(* same checksum file: cmd_build is invoked again once it has returned,    *)
(* with the config file or --force changed or not.                         *)
(***************************************************************************)
OperatorDeclarations ==
  {d \in Declarations :
     /\ d.valid /\ ~d.apt_sources
     /\ d.apt \in {<<"curl">>, <<"curl", "git">>}
     /\ d.pip = <<>> /\ d.scripts = <<>> /\ d.configs = <<>>}

\* an image is offered for reuse while its history is at most this long
MaxReusedHistory == 3

\* the item list in the labels of an image, without the base item
LabelItems(image) == {i \in Range(image.labels) : i[1] # "base"}

\* the cache of a new invocation: nothing, or the final image of the project
\* with the item list of its labels when the new declaration adds items to it
Inventory(st, d) ==
  {<<>>} \cup (IF /\ target_ref(d) \in DOMAIN st
                  /\ st[target_ref(d)].labels # <<>>
                  /\ Len(st[target_ref(d)].history) <= MaxReusedHistory
                  /\ LabelItems(st[target_ref(d)]) \subseteq DeclaredItems(d)
                  /\ LabelItems(st[target_ref(d)]) # DeclaredItems(d)
               THEN {<<[tag |-> target_ref(d), packages |-> Range(st[target_ref(d)].labels)]>>}
               ELSE {})

\* `docker create` pulls an image the store does not hold: the declared base
\* is in the store again when the next build creates a container from it
Pulled(st, d) ==
  [r \in DOMAIN st \cup {d.base_image} |->
     IF r \in DOMAIN st THEN st[r] ELSE PristineBase]

OperatorInit ==
  /\ decl \in OperatorDeclarations
  /\ force_rebuild \in BOOLEAN
  /\ sidecar = {}
  /\ sidecar0 = {}
  /\ image_sets = <<>>
  /\ store = [r \in {decl.base_image} |-> PristineBase]
  /\ pc = "preflight"
  /\ exit_code = {}
  /\ frame = NoFrame
  /\ phases = <<>>
  /\ ops = {}
  /\ failures = {}
  /\ written = {}
  /\ deleted = {}
  /\ builder_call = NoCall

\* main: the next invocation of `cli.py build` by the operator
NextBuild ==
  /\ pc = "done"
  /\ decl' \in OperatorDeclarations
  /\ force_rebuild' \in BOOLEAN
  /\ image_sets' \in Inventory(store, decl')
  /\ sidecar0' = sidecar
  /\ pc' = "preflight"
  /\ exit_code' = {}
  /\ frame' = NoFrame
  /\ phases' = <<>>
  /\ ops' = {}
  /\ failures' = {}
  /\ written' = {}
  /\ deleted' = {}
  /\ builder_call' = NoCall
  /\ store' = Pulled(store, decl')
  /\ UNCHANGED sidecar

OperatorNext ==
  \/ Preflight
  \/ Construct
  \/ CheckChecksum
  \/ Decompose
  \/ Plan
  \/ BuildRefresh
  \/ BuildLayer
  \/ Finalize
  \/ TagScheme
  \/ TagClassic
  \/ WriteSidecar
  \/ Interrupt
  \/ NextBuild

OperatorSpec == OperatorInit /\ [][OperatorNext]_vars

ReturnedSuccess == pc = "done" /\ exit_code = {0}

planner_scope(d) == <<repo_name(d), base_tag_slug(d) \o <<"__">>>>

\* a reference docker accepts: path components of letters and digits with
\* single '.', '-' or '_' inside, separated by '/', and at most one ':tag'
WellFormedReference(s) ==
  /\ s # <<>>
  /\ s[1] \in Alnum /\ s[Len(s)] \in Alnum
  /\ \A i \in 1..Len(s) : s[i] \in Alnum \cup {".", "-", "_", "/", ":"}
  /\ \A i \in 1..(Len(s) - 1) : s[i] \in Alnum \/ s[i + 1] \in Alnum
  /\ Cardinality({i \in 1..Len(s) : s[i] = ":"}) <= 1
  /\ rfind(s, ":") = 0 \/ rfind(s, ":") > rfind(s, "/")

\* C39: two declarations whose base image references differ (in the
\* registry or path, the repository or the tag) never get the same pair of
\* preferred repo and required tag prefix.
C39_ScopeIdentifiesBase ==
  (pc = "tag_scheme" /\ WellFormedReference(ImageChars(decl.base_image))) =>
    \A s \in BaseImageNames :
      (WellFormedReference(s) /\ s # ImageChars(decl.base_image)) =>
        planner_scope([decl EXCEPT !.base_image = NamedImage(s)])
          # <<frame.repo_name, frame.base_tag_slug \o <<"__">>>>

(***************************************************************************)
(* Two invocations of `cli.py build --force` at the same time, on the same *)
(* store and the same checksum file, for the same image_name and image_tag.*)
(* Each docker command and the write of the checksum file is one step; the *)
(* steps of the two builds interleave.  decl, pc, frame and exit_code hold *)
(* one value per build; `written` is the list of the writes of final tags  *)
(* and of the checksum file, in the order they happened.                   *)
(***************************************************************************)
Builds == {1, 2}

ConcurrentDeclarations ==
  {d \in Declarations :
     /\ d.valid /\ ~d.apt_sources
     /\ d.apt \in {<<"curl">>, <<"git", "curl">>}
     /\ d.pip = <<>> /\ d.scripts = <<>> /\ d.configs = <<>>}

\* _build_layered lines 168-193 with force_rebuild: the layers of the
\* declaration, all of them to build on the declared base
ForcedFrameOf(d) ==
  [all_layers |-> _parse_layers(d),
   layers_to_build |-> non_base(_parse_layers(d)),
   built_layers |-> <<>>,
   parent_image |-> d.base_image,
   final_image |-> d.base_image,
   container |-> {},
   created_from |-> <<>>,
   produced |-> <<>>,
   tagged |-> {}]

ConcurrentInit ==
  /\ decl \in [Builds -> ConcurrentDeclarations]
  /\ force_rebuild = TRUE
  /\ sidecar = {}
  /\ sidecar0 = {}
  /\ image_sets = <<>>
  /\ store = [r \in {BaseImage} |-> PristineBase]
  /\ pc = [b \in Builds |-> "create"]
  /\ exit_code = [b \in Builds |-> {}]
  /\ frame = [b \in Builds |-> ForcedFrameOf(decl[b])]
  /\ phases = <<>>
  /\ ops = {}
  /\ failures = {}
  /\ written = <<>>
  /\ deleted = {}
  /\ builder_call = NoCall

\* the calls of build_layer of a build: its layers, then the label-only
\* layer of _embed_dependency_metadata
builder_calls(f) == f.layers_to_build \o <<meta_layer>>

\* build_layer line 124: docker create ... parent_image; the container is
\* made from the image the name parent_image has at this moment
ConcurrentCreate(b) ==
  /\ pc[b] = "create"
  /\ frame' = [frame EXCEPT ![b].container = {store[frame[b].parent_image]},
                            ![b].created_from = Append(@, store[frame[b].parent_image])]
  /\ pc' = [pc EXCEPT ![b] = "commit"]
  /\ UNCHANGED <<decl, force_rebuild, sidecar, store, image_sets, exit_code, phases, ops,
                 failures, written, deleted, sidecar0, builder_call>>

\* build_layer line 221: docker commit container image_tag, and lines
\* 403-406 or 447-449 of _build_layered: the tag is the next parent
ConcurrentCommit(b) ==
  /\ pc[b] = "commit"
  /\ LET f == frame[b]
         k == Len(f.produced) + 1
         embed == k > Len(f.layers_to_build)
         layer == builder_calls(f)[k]
         items == used_items(f.all_layers, f.built_layers, {})
         image_tag == IF embed THEN meta_tag(decl[b], Range(items))
                      ELSE _format_layer_image_tag(decl[b], layer)
         image == built_image(CHOOSE c \in f.container : TRUE, layer, {}, items, "commit")
     IN /\ store' = Put(store, image_tag, image)
        /\ frame' = [frame EXCEPT ![b].parent_image = image_tag,
                                  ![b].built_layers = IF embed THEN @ ELSE Append(@, layer),
                                  ![b].final_image = IF embed THEN image_tag ELSE @,
                                  ![b].produced = Append(@, image),
                                  ![b].container = {}]
        /\ pc' = [pc EXCEPT ![b] = IF embed THEN "tag_scheme" ELSE "create"]
  /\ UNCHANGED <<decl, force_rebuild, sidecar, image_sets, exit_code, phases, ops,
                 failures, written, deleted, sidecar0, builder_call>>

\* a docker tag that leaves a name that exists where it is
_tag_image_unless_tagged(st, source, target) ==
  IF target \in DOMAIN st THEN st ELSE Put(st, target, st[source])

\* _tag_image: docker tag source target; the name moves to the image of source
_tag_image(st, source, target) == Put(st, target, st[source])

\* _build_layered lines 455-466: docker tag final_image target_ref
ConcurrentTagScheme(b) ==
  /\ pc[b] = "tag_scheme"
  /\ store' = _tag_image(store, frame[b].final_image, target_ref(decl[b]))
  /\ frame' = [frame EXCEPT ![b].tagged = {store[frame[b].final_image]}]
  /\ written' = Append(written, <<b, "scheme">>)
  /\ pc' = [pc EXCEPT ![b] = "tag_classic"]
  /\ UNCHANGED <<decl, force_rebuild, sidecar, image_sets, exit_code, phases, ops,
                 failures, deleted, sidecar0, builder_call>>

\* _build_layered lines 470-482: docker tag target_ref classic_ref
ConcurrentTagClassic(b) ==
  /\ pc[b] = "tag_classic"
  /\ store' = _tag_image(store, target_ref(decl[b]), classic_ref(decl[b]))
  /\ pc' = [pc EXCEPT ![b] = "write_sidecar"]
  /\ UNCHANGED <<decl, force_rebuild, sidecar, image_sets, exit_code, frame, phases, ops,
                 failures, written, deleted, sidecar0, builder_call>>

\* cmd_build lines 188-203: the checksum file is written, return 0
ConcurrentWriteSidecar(b) ==
  /\ pc[b] = "write_sidecar"
  /\ sidecar' = {dep_checksum(decl[b])}
  /\ written' = Append(written, <<b, "sidecar">>)
  /\ pc' = [pc EXCEPT ![b] = "done"]
  /\ exit_code' = [exit_code EXCEPT ![b] = {0}]
  /\ UNCHANGED <<decl, force_rebuild, store, image_sets, frame, phases, ops,
                 failures, deleted, sidecar0, builder_call>>

ConcurrentNext ==
  \/ \E b \in Builds : ConcurrentCreate(b)
  \/ \E b \in Builds : ConcurrentCommit(b)
  \/ \E b \in Builds : ConcurrentTagScheme(b)
  \/ \E b \in Builds : ConcurrentTagClassic(b)
  \/ \E b \in Builds : ConcurrentWriteSidecar(b)

ConcurrentSpec == ConcurrentInit /\ [][ConcurrentNext]_vars

\* what the layers of a build install when they run on the declared base
InstalledBy(f) ==
  UNION {apply_layer({}, builder_calls(f)[i], {}) : i \in 1..Len(builder_calls(f))}

\* C36: with two builds running at once on one store, under every
\* interleaving the container of layer i+1 of a build is created from the
\* image the same build committed for layer i (no layer tag written by the
\* other build is read as a parent), and the image a build tags as final
\* holds exactly what the layers of that build install.
C36_BuildsIsolated ==
  \A b \in Builds :
    /\ \A i \in 2..Len(frame[b].created_from) :
         frame[b].created_from[i] = frame[b].produced[i - 1]
    /\ \A image \in frame[b].tagged : image.installed = InstalledBy(frame[b])

\* both builds returned 0, and they are builds of different declarations
BothSucceeded ==
  /\ \A b \in Builds : pc[b] = "done" /\ exit_code[b] = {0}
  /\ decl[1] # decl[2]

\* the build that wrote `what` (the scheme tag, the checksum file) last
LastWriter(what) ==
  LET I == {i \in 1..Len(written) : written[i][2] = what}
  IN written[CHOOSE i \in I : \A j \in I : j <= i][1]

\* C37 (as stated): two builds of different declarations for the same
\* image_name and image_tag run at once and both succeed; under every
\* interleaving of their tag and checksum writes the checksum file holds the
\* checksum of the declaration whose image the final tag references.
C37_SidecarMatchesTag ==
  BothSucceeded =>
    \E b \in Builds :
      /\ store[target_ref(decl[b])] \in frame[b].tagged
      /\ sidecar = {dep_checksum(decl[b])}

\* C37 (as the code has it): the last writer wins, for the tag and for the
\* checksum file each on its own: the final tag references the image of the
\* build that tagged last, the file holds the checksum of the build that
\* wrote it last, and the two agree when that is the same build.
C37_LastWritersWin ==
  BothSucceeded =>
    /\ store[target_ref(decl[1])] \in frame[LastWriter("scheme")].tagged
    /\ sidecar = {dep_checksum(decl[LastWriter("sidecar")])}
    /\ (LastWriter("scheme") = LastWriter("sidecar") => C37_SidecarMatchesTag)

\* both builds succeeded, one tagged last and the other wrote the file last
C37_Witness ==
  /\ BothSucceeded
  /\ LastWriter("scheme") # LastWriter("sidecar")

====
